---- MODULE Spec2Model ----
(***************************************************************************)
(* AlertMe: incremental catalog crawlers (Immo-KH, Immoweb, ImmoToma) and  *)
(* the seed-then-diff alert state kept in a JSON state file.               *)
(*                                                                         *)
(* Several specifications share the module:                                *)
(*   SpecCrawl  the pagination loops (cursor engine of Immo-KH, page loops *)
(*              of Immoweb and ImmoToma), one crawl per behaviour;         *)
(*   SpecStore  run_once against the state file: load_state, save_state    *)
(*              (temporary file then rename), seed_if_needed,              *)
(*              detect_new_items and the notifier, over several runs;      *)
(*   SpecScroll the "load more" loop of the Immo-KH browser collector;     *)
(*   SpecBatch  the batch runner over the alerts of a JSONL file;          *)
(*   SpecCanon  the URL canonicalizers of the three sites;                 *)
(*   SpecFilter apply_filters of Immo-KH;                                  *)
(*   SpecTargets the targets of one state file over several runs;         *)
(*   SpecJournal the journal of alert events (alerts.jsonl): the rows the  *)
(*              UI appends, at the repository or in the local file, and    *)
(*              the replay of the UI and of the batch;                     *)
(*   SpecReplay the batch replays a journal of any rows.                   *)
(***************************************************************************)
EXTENDS Integers, Sequences, FiniteSets, TLC

VARIABLES
  \* ---- one crawl (SpecCrawl)
  c_site,        \* site whose loop runs
  c_pages,       \* the configured pages value
  c_pc,          \* position in the crawl
  all_items,     \* accumulated ids, in order
  seen,          \* ids seen in this crawl (cursor engine)
  cursor_id,     \* cursor of the cursor engine, NoneInt while unset
  page_index,    \* page_index (cursor engine) / page (page loops)
  psize_ix,      \* index in (12, 48) of the attempt being made
  advanced,      \* the step's "advanced" flag
  c_steps,       \* history: page steps performed so far
  prev_cursor,   \* history: cursor before the last successful step
  c_succ,        \* history: successful cursor steps so far
  tried,         \* history: << page size, transport >> requests of this step
  page_items,    \* history: the cards parsed from the last answer
  \* ---- runs against the state file (SpecStore)
  s_site,        \* site whose run_once is run (one state file per site)
  targets,       \* identity keys of the alerts that are run
  now,           \* the clock read by utc_now_iso
  catalog,       \* ids of the listings the site has published
  pubOf,         \* publication date of each listing
  disk,          \* content of STATE_PATH
  tmp,           \* condition of STATE_PATH + ".tmp"
  bak,           \* content of STATE_PATH + ".bak"
  pc,            \* position of the run in progress, "idle" between runs
  run,           \* arguments and locals of the run in progress
  mem,           \* the state dict held by the run
  startFiles,    \* history: << disk, tmp, bak >> when the run started
  hist,          \* history, per key: what the seed saw, what was notified
  \* ---- the browser collector of Immo-KH (SpecScroll)
  pages_max,            \* argument of _collect_with_browser
  b_pc,                 \* position in _collect_with_browser
  clicks,               \* successful clicks on "load more"
  stable_cycles,        \* consecutive cycles without progress
  last_cards,           \* card count at the last progress
  last_height,          \* scroll height at the last progress
  end_by_backend_empty, \* an InfiniteScroll answer carried no card
  has_btn,              \* _has_load_more of the last cycle
  final_before,         \* card count before the final sweep
  final_after,          \* card count after the final sweep
  cycles,               \* history: iterations of the while loop
  b_exit,               \* history: how the while loop was left
  growth,               \* history: per finished cycle, whether cards or height grew
  \* ---- the batch runner (SpecBatch)
  batch_alerts,         \* main's alerts: effective alerts of the batch, in order
  stop_on_error,        \* --stop-on-error
  bt_pc,                \* position in main
  idx,                  \* index of the alert the loop is at
  ok,                   \* count of alerts run without exception
  fail,                 \* indexes of the alerts that failed, in order
  attempted,            \* history: indexes given to dispatch_run, in order
  \* ---- the canonicalizers and the head of run_once (SpecCanon)
  u_site,               \* site whose canonicalizer is applied
  raw1,                 \* a raw URL
  raw2,                 \* a second raw URL, a variant of the first
  out1,                 \* canonicalizer applied to raw1
  out2,                 \* canonicalizer applied to raw2
  again1,               \* canonicalizer applied to out1
  cn_pc,                \* how often the canonicalizer was applied
  ro_pc,                \* position of run_once(raw1, ...)
  \* ---- the filter engine of Immo-KH (SpecFilter)
  f_items,              \* argument items of apply_filters
  f_filters,            \* argument filters of apply_filters
  f_out,                \* the list apply_filters returns
  f_pc,                 \* "start" before the call, "done" after it
  \* ---- the journal of alert events (SpecJournal, SpecReplay)
  storage,              \* "github" when GH_TOKEN is set, else "local"
  journal,              \* the rows of alerts.jsonl the UI writes to, in order
  ui_open,              \* the UI session has loaded st.session_state.alerts
  ui_alerts,            \* st.session_state.alerts
  ui_req,               \* the append_event call the session is in
  worktree,             \* the rows of alerts.jsonl in the working tree of the batch
  effective,            \* the alerts read_jsonl_effective_items gave the batch
  read_pc,              \* "none" before the batch reads, then "done" or "raised"
  written,              \* history: the number of writes that changed alerts.jsonl
  last_ui               \* history: the last add, delete or edit made in the UI

crawlVars == << c_site, c_pages, c_pc, all_items, seen, cursor_id, page_index,
                psize_ix, advanced, c_steps, prev_cursor, c_succ, tried,
                page_items >>

storeVars == << s_site, targets, now, catalog, pubOf, disk, tmp, bak, pc, run,
                mem, startFiles, hist >>

scrollVars == << pages_max, b_pc, clicks, stable_cycles, last_cards, last_height,
                 end_by_backend_empty, has_btn, final_before, final_after,
                 cycles, b_exit, growth >>

batchVars == << batch_alerts, stop_on_error, bt_pc, idx, ok, fail, attempted >>

canonVars == << u_site, raw1, raw2, out1, out2, again1, cn_pc, ro_pc >>

filterVars == << f_items, f_filters, f_out, f_pc >>

journalVars == << storage, journal, ui_open, ui_alerts, ui_req, worktree,
                 effective, read_pc, written, last_ui >>

vars == << crawlVars, storeVars, scrollVars, batchVars, canonVars, filterVars,
           journalVars >>

\* what the actions of one specification leave alone
outsideCrawl == << storeVars, scrollVars, batchVars, canonVars, filterVars,
  journalVars >>
outsideStore == << crawlVars, scrollVars, batchVars, canonVars, filterVars,
  journalVars >>
outsideScroll == << crawlVars, storeVars, batchVars, canonVars, filterVars,
  journalVars >>
outsideBatch == << crawlVars, storeVars, scrollVars, canonVars, filterVars,
  journalVars >>
outsideCanon == << crawlVars, storeVars, scrollVars, batchVars, filterVars,
  journalVars >>
outsideFilter == << crawlVars, storeVars, scrollVars, batchVars, canonVars,
  journalVars >>
outsideJournal == << crawlVars, storeVars, scrollVars, batchVars, canonVars,
  filterVars >>

----------------------------------------------------------------------------
(* Bounds of the model                                                     *)

MaxId == 3          \* listing ids of a crawl are 0..MaxId
MaxPageLen == 2     \* cards on one fetched page
MaxPages == 3       \* largest configured pages value
MaxListings == 2    \* listings the site publishes in one behaviour
MaxTime == 1        \* the clock runs over 0..MaxTime
MaxObs == 2         \* items one crawl hands to the state store
MaxCards == 2       \* rendered cards counted in the browser are 0..MaxCards
MaxHeight == 2      \* document.body.scrollHeight is 0..MaxHeight
MaxScrollPages == 6 \* largest pages value given to the browser collector
MaxCycles == 7      \* iterations of the scroll loop that are followed
MaxAlerts == 3      \* effective alerts of one batch
MaxParams == 2      \* query parameters of a raw URL
MaxItems == 2       \* items given to apply_filters
MaxEvents == 2      \* writes that change the journal
MaxLost == 1        \* requests or file appends of one session that fail
MaxReplay == 3      \* rows of a replayed journal

----------------------------------------------------------------------------
(* Generic helpers                                                         *)

Max(a, b) == IF a >= b THEN a ELSE b

Range(s) == { s[i] : i \in 1..Len(s) }

SetMin(S) == CHOOSE m \in S : \A x \in S : m <= x

\* sequences over S of length lo..hi without a repeated element
DistinctSeqs(S, lo, hi) ==
  { s \in UNION { [1..n -> S] : n \in lo..hi } :
      \A i, j \in 1..Len(s) : i # j => s[i] # s[j] }

Sites == { "immokh", "immoweb", "marjorietome" }

----------------------------------------------------------------------------
(* HTTP responses and page payloads of Immo-KH                             *)

KhIds == 0..MaxId

\* an id for which int(pid) raises
NonNumericId == -2

\* the ids a card handed to the cursor engine can carry
CardIds == KhIds \cup { NonNumericId }

\* int(pid): a digit string has a value, on any other id int() raises
IsNumeric(pid) == pid >= 0
IntOf(pid) == pid

NoneInt == -1

PSIZES == << 12, 48 >>

\* A payload: "empty" (no text), "plain" (text without item marker),
\* "nores" (search404.png / "aucune de nos proprietes"), "stub" (item marker
\* but no parsable card), "cards" (parsable cards, ids in order).
Bodies ==
  { [kind |-> k, cards |-> << >>] : k \in { "empty", "plain", "nores", "stub" } }
  \cup { [kind |-> "cards", cards |-> c] : c \in DistinctSeqs(CardIds, 1, MaxPageLen) }

NoHtml == [kind |-> "none", cards |-> << >>]

\* What session.get / session.post can do: raise, answer with an error
\* status, or answer 2xx with a payload.
Responses ==
  { [exc |-> TRUE, ok |-> FALSE, body |-> NoHtml],
    [exc |-> FALSE, ok |-> FALSE, body |-> NoHtml] }
  \cup { [exc |-> FALSE, ok |-> TRUE, body |-> b] : b \in Bodies }

HasMarker(body) == body.kind \in { "stub", "cards" }

Raised == [raised |-> TRUE, html |-> NoHtml, meth |-> "GET"]

fetch_inf_fragment(g, p) ==
  IF g.exc THEN Raised
  ELSE IF g.ok /\ g.body.kind # "empty" /\ HasMarker(g.body)
    THEN [raised |-> FALSE, html |-> g.body, meth |-> "GET"]
  ELSE IF p.exc THEN [Raised EXCEPT !.meth = "POST"]
  ELSE IF p.ok /\ p.body.kind # "empty"
    THEN [raised |-> FALSE, html |-> p.body, meth |-> "POST"]
  ELSE [raised |-> FALSE, html |-> NoHtml, meth |-> "POST"]

FetchResults == { fetch_inf_fragment(g, p) : g \in Responses, p \in Responses }

\* the requests one call of fetch_inf_fragment has sent for page size psize:
\* the GET, and the POST when the call went past the GET
Sent(psize, res) ==
  IF res.meth = "GET" THEN { << psize, "GET" >> }
  ELSE { << psize, "GET" >>, << psize, "POST" >> }

\* attempts of one step: page sizes (12, 48), each by GET then POST
Combinations == { << PSIZES[i], m >> : i \in 1..Len(PSIZES), m \in { "GET", "POST" } }

parse_cards_from_html(html) == IF html.kind = "cards" THEN html.cards ELSE << >>

\* "if not html or (st and st >= 400): continue" and the no-result markers
AttemptUsable(res) == res.html.kind # "none" /\ res.html.kind # "nores"

\* the largest of the numeric ids
min_int_id_max(items) ==
  LET ints == { IntOf(items[i]) : i \in { j \in 1..Len(items) : IsNumeric(items[j]) } }
  IN IF ints = {} THEN NoneInt ELSE Max(CHOOSE x \in ints : \A y \in ints : y <= x, 0)

min_int_id(items) ==
  LET ints == { IntOf(items[i]) : i \in { j \in 1..Len(items) : IsNumeric(items[j]) } }
  IN IF ints = {} THEN NoneInt ELSE SetMin(ints)

\* page 1: every card not yet seen is accumulated
RECURSIVE AddFirstPage(_, _, _)
AddFirstPage(acc, sn, items) ==
  IF items = << >> THEN [all |-> acc, seen |-> sn]
  ELSE LET pid == Head(items) IN
       IF pid \notin sn
         THEN AddFirstPage(Append(acc, pid), sn \cup { pid }, Tail(items))
         ELSE AddFirstPage(acc, sn, Tail(items))

\* a step that counts every card not yet seen
IsAdvancing_unseen(pid, cursor, sn) == pid \notin sn

\* a step that accumulates every card of the answer
IsAdvancing_always(pid, cursor, sn) == TRUE

\* "if ival < cursor_id and pid not in seen"
IsAdvancing(pid, cursor, sn) == IntOf(pid) < cursor /\ pid \notin sn

\* a cursor page: only the advancing cards are accumulated
RECURSIVE AddCursorPage(_, _, _, _, _, _)
AddCursorPage(acc, sn, cursor, items, addc, new_min) ==
  IF items = << >> THEN [all |-> acc, seen |-> sn, addc |-> addc, new_min |-> new_min]
  ELSE LET pid == Head(items) IN
       IF IsNumeric(pid) /\ IsAdvancing(pid, cursor, sn)
         THEN AddCursorPage(Append(acc, pid), sn \cup { pid }, cursor, Tail(items),
                            addc + 1,
                            IF new_min = NoneInt \/ IntOf(pid) < new_min
                              THEN IntOf(pid) ELSE new_min)
         ELSE AddCursorPage(acc, sn, cursor, Tail(items), addc, new_min)

max_pages(pages) == Max(1, pages)

\* a loop that runs one page further
KhLoopGuard_le(pi, pages) == pi <= max_pages(pages)

\* "while page_index < max_pages"
KhLoopGuard(pi, pages) == pi < max_pages(pages)

----------------------------------------------------------------------------
(* The state file and the alert records                                    *)

Keys == { "k1", "k2" }
Emails == { "", "a@x" }
StoreIds == 1..MaxListings

Min(a, b) == IF a <= b THEN a ELSE b

\* publication_date as the diff reads it: a timezone-aware ISO timestamp
\* (a time), or nothing it can compare (None, a string fromisoformat
\* rejects, a naive timestamp whose comparison raises TypeError)
NoDate == [has |-> FALSE, t |-> 0]
DateAt(t) == [has |-> TRUE, t |-> t]

\* the ids from the largest down
RECURSIVE sorted_desc(_)
sorted_desc(S) ==
  IF S = {} THEN << >>
  ELSE LET m == CHOOSE x \in S : \A y \in S : y <= x IN << m >> \o sorted_desc(S \ { m })

\* sorted(set): ascending list
RECURSIVE sorted(_)
sorted(S) ==
  IF S = {} THEN << >>
  ELSE LET m == SetMin(S) IN << m >> \o sorted(S \ { m })

\* {it["id"] for it in items if it.get("id")}
ids(items) == { items[i].id : i \in 1..Len(items) }

NoRec == [present |-> FALSE, created_at_utc |-> 0, seen_codes |-> << >>,
          last_run_utc |-> 0, email |-> ""]
NoAlerts == [k \in Keys |-> NoRec]

\* A file: "absent"; "json" (a state dict {"alerts": {...}}); "partial" (a
\* state dict cut before its end: no reader gets its records back);
\* "garbage" (not JSON); "nondict" (JSON that is not an object, such as []).
File(kind, alerts) == [kind |-> kind, alerts |-> alerts]
Absent == File("absent", NoAlerts)
EmptyState == File("json", NoAlerts)
Partial == File("partial", NoAlerts)
Unparsable == { "partial", "garbage" }

utc_now_iso(t) == t

\* a load that starts every run from an empty state
load_state_fresh(d, b) == [state |-> EmptyState, disk |-> d, bak |-> b, reset |-> FALSE]

\* load_state: what it returns and what it leaves on disk
load_state(d, b) ==
  IF d.kind = "absent"
    THEN [state |-> EmptyState, disk |-> d, bak |-> b, reset |-> FALSE]
  ELSE IF d.kind \in Unparsable
    THEN [state |-> EmptyState, disk |-> Absent, bak |-> d, reset |-> TRUE]
  ELSE [state |-> d, disk |-> d, bak |-> b, reset |-> FALSE]

\* The temporary file STATE_PATH + ".tmp" is written and renamed within one
\* call of save_state(state): what a complete temporary file holds is
\* json.dump(state). A leftover of an interrupted save is never read, the
\* next open(tmp, "w") truncates it; so the file is kept by its condition:
\* "absent", "partial" or "complete".

\* a save that writes STATE_PATH in place
save_state_inplace(i, d, t, st) ==
  CASE i = 1 -> [disk |-> Partial, tmp |-> t]
    [] i = 2 -> [disk |-> File("json", st.alerts), tmp |-> t]
    [] OTHER -> [disk |-> d, tmp |-> t]

\* save_state, step i of 3: open the temporary file and start writing,
\* finish json.dump, os.replace(tmp, STATE_PATH)
save_state(i, d, t, st) ==
  CASE i = 1 -> [disk |-> d, tmp |-> "partial"]
    [] i = 2 -> [disk |-> d, tmp |-> "complete"]
    [] OTHER -> [disk |-> IF t = "complete" THEN File("json", st.alerts) ELSE Partial,
                 tmp |-> "absent"]

\* the seed that forgets the crawled ids
seed_codes_none(items) == << >>

\* codes = sorted({it["id"] for it in items if it.get("id")})
seed_codes(items) == sorted(ids(items))

\* a record that keeps the address it had
new_email_stored(stored, email) == stored

\* alerts[state_key]["email"] = email
new_email(stored, email) == email

\* seed_if_needed: raised (state is no dict), else the state it leaves in
\* memory, whether it saved, and its return value
seed_if_needed(state, key, email, items, t) ==
  IF state.kind # "json"
    THEN [raised |-> TRUE, state |-> state, save |-> FALSE, ret |-> FALSE]
  ELSE IF state.alerts[key].present
    THEN IF state.alerts[key].email # email
      THEN [raised |-> FALSE,
            state |-> [state EXCEPT !.alerts[key].email = new_email(@, email)],
            save |-> TRUE, ret |-> FALSE]
      ELSE [raised |-> FALSE, state |-> state, save |-> FALSE, ret |-> FALSE]
  ELSE [raised |-> FALSE,
        state |-> [state EXCEPT !.alerts[key] =
                     [present |-> TRUE, created_at_utc |-> utc_now_iso(t),
                      seen_codes |-> seed_codes(items),
                      last_run_utc |-> utc_now_iso(t), email |-> email]],
        save |-> TRUE, ret |-> TRUE]

\* alertme_immoweb.detect_new_items: pub_ok = pub_dt >= created_dt; the other
\* two sites have no such test (and their items carry no date)
pub_ok(site, it, created) ==
  /\ site = "immoweb"
  /\ it.publication_date.has
  /\ it.publication_date.t >= created

\* a diff that reports every incoming item
is_new_always(pub, pid, seen_set) == TRUE

\* "if pub_ok or (pid not in seen)" (Immoweb), "it['id'] not in seen" (the
\* other two sites, whose pub_ok is always False)
is_new(pub, pid, seen_set) == pub \/ pid \notin seen_set

\* the diff that forgets to record what it saw
new_seen_codes_old(seen_set, items) == sorted(seen_set)

\* the diff that keeps the ids of this crawl alone
new_seen_codes_only(seen_set, items) == sorted(ids(items))

\* sorted(seen.union({it["id"] for it in items if it.get("id")}))
new_seen_codes(seen_set, items) == sorted(seen_set \cup ids(items))

\* a diff that stamps the record anew
updated_alert_restamped(alert, codes, t) ==
  [alert EXCEPT !.created_at_utc = t, !.seen_codes = codes, !.last_run_utc = t]

\* alert["seen_codes"] = sorted(...); alert["last_run_utc"] = utc_now_iso()
updated_alert(alert, codes, t) ==
  [alert EXCEPT !.seen_codes = codes, !.last_run_utc = t]

detect_new_items(site, state, key, items, t) ==
  LET alert == state.alerts[key]
      seen_set == Range(alert.seen_codes)
      IsNew(it) == is_new(pub_ok(site, it, alert.created_at_utc), it.id, seen_set)
  IN [new_list |-> SelectSeq(items, IsNew),
      email |-> alert.email,
      state |-> [state EXCEPT !.alerts[key] =
                   updated_alert(@, new_seen_codes(seen_set, items), utc_now_iso(t))]]

\* canonicalisation fails on a foreign host (normalize_immoweb_url,
\* canonicalize_marjorietome_url raise ValueError); canonicalize_list_url of
\* Immo-KH never fails
CanonFails(site, host_ok) == site # "immokh" /\ ~host_ok

\* a run that treats an empty crawl like any other
StopsOnNoItem_never(items) == FALSE

\* "if not all_items: return" / "if not items: return"
StopsOnNoItem(items) == items = << >>

Item(i) == [id |-> i, publication_date |-> pubOf[i]]

\* The crawl of a run as the run sees it: it raises (Immo-KH's fetch is not
\* guarded; the extractors of Immoweb and ImmoToma raise on a title or a
\* price of the server that has not the expected type, and run_once does
\* not catch it), the list page cannot be loaded (Immo-KH), or it yields cards
\* of listings of the catalog: any of them, a listing possibly twice when it
\* shows on two pages (Immoweb, ImmoToma; the cursor engine keeps one). The
\* state store does not depend on the order of the cards: one order stands
\* for all.
CrawledIds(site) ==
  LET Ascending(s) == \A n \in 1..(Len(s) - 1) : s[n] <= s[n + 1] IN
  IF site = "immokh"
    THEN { s \in DistinctSeqs(catalog, 0, MaxObs) : Ascending(s) }
    ELSE { s \in UNION { [1..n -> catalog] : n \in 0..MaxObs } : Ascending(s) }

CrawlFaults(site) ==
  IF site = "immokh" THEN { "none", "raise", "unloadable" } ELSE { "none", "raise" }

\* apply_filters keeps the items that pass every configured predicate; here
\* the ids that pass at the time of the crawl are given (the filters of an
\* alert are fixed, the price or type shown for a listing is not)
FilterKeep(items, keep) ==
  LET Passes(it) == it.id \in keep IN SelectSeq(items, Passes)

----------------------------------------------------------------------------
(* SpecStore: runs of one site against its state file                      *)

NoFiles == << Absent, "absent", Absent >>

NoRun == [key |-> "k1", email |-> "", items |-> << >>, new_list |-> << >>,
          to_email |-> "", after |-> "none", step |-> 0, outcome |-> "none",
          empty_crawl |-> FALSE,
          at |-> "none", loaded |-> "none", reset |-> FALSE, hadRec |-> FALSE,
          oldRec |-> NoRec, saveOld |-> Absent, saveNew |-> Absent,
          calls |-> 0, mailed |-> << >>, delivery |-> "none"]

\* history of one alert: whether a seed took place and what the catalog and
\* the recorded ids were then, how often each listing was handed to the
\* notifier since, the seen set left by the previous run, and whether the
\* state file was backed up and reset since that run
NoHist == [seeded |-> FALSE, seedCatalog |-> {}, seedSeen |-> {},
           handed |-> [i \in StoreIds |-> 0],
           seenPrev |-> {}, resetSince |-> FALSE]

InitStoreVars(site, tg) ==
  /\ s_site = site
  /\ targets = tg
  /\ now = 0
  /\ catalog = {}
  /\ pubOf = [i \in StoreIds |-> NoDate]
  /\ disk = Absent
  /\ tmp = "absent"
  /\ bak = Absent
  /\ pc = "idle"
  /\ run = NoRun
  /\ mem = EmptyState
  /\ startFiles = NoFiles
  /\ hist = [k \in Keys |-> NoHist]

\* ---- the environment, between runs

\* the site publishes a listing; Immoweb listings may carry a date
Publish ==
  /\ pc = "idle"
  /\ \E i \in StoreIds \ catalog :
       /\ catalog' = catalog \cup { i }
       /\ \E d \in (IF s_site = "immoweb" THEN { NoDate, DateAt(now) } ELSE { NoDate }) :
            pubOf' = [pubOf EXCEPT ![i] = d]
  /\ UNCHANGED << s_site, targets, now, disk, tmp, bak, pc, run, mem, startFiles,
                  hist >>

Tick ==
  /\ pc = "idle"
  /\ now < MaxTime
  /\ now' = now + 1
  /\ UNCHANGED << s_site, targets, catalog, pubOf, disk, tmp, bak, pc, run, mem,
                  startFiles, hist >>

\* the state file is damaged from outside: no longer JSON, or JSON of
\* another shape
Corrupt ==
  /\ pc = "idle"
  /\ disk.kind = "json"
  /\ \E k \in { "garbage", "nondict" } : disk' = File(k, NoAlerts)
  /\ UNCHANGED << s_site, targets, now, catalog, pubOf, tmp, bak, pc, run, mem,
                  startFiles, hist >>

\* ---- run_once

End(r, outcome) == [r EXCEPT !.outcome = outcome]

\* run_once up to load_state: canonicalisation, crawl, filters
RunStart ==
  /\ pc = "idle"
  /\ startFiles' = << disk, tmp, bak >>
  /\ \E k \in targets, email \in Emails, host_ok \in BOOLEAN,
        fault \in CrawlFaults(s_site), raw \in CrawledIds(s_site),
        keep \in (IF s_site = "immokh" THEN SUBSET catalog ELSE { catalog }) :
       LET crawled == [n \in 1..Len(raw) |-> Item(raw[n])]
           r == [NoRun EXCEPT !.key = k]
       IN
       IF CanonFails(s_site, host_ok)
         THEN run' = End(r, "invalid_target") /\ pc' = "ended"
       ELSE IF fault = "raise"
         THEN run' = End(r, "fetch_raised") /\ pc' = "ended"
       ELSE IF fault = "unloadable"
         THEN run' = End(r, "unloadable") /\ pc' = "ended"
       ELSE IF StopsOnNoItem(crawled)
         THEN run' = End([r EXCEPT !.empty_crawl = TRUE], "no_items") /\ pc' = "ended"
       ELSE /\ run' = [r EXCEPT !.email = email, !.items = FilterKeep(crawled, keep),
                                !.empty_crawl = (crawled = << >>)]
            /\ pc' = "load"
  /\ UNCHANGED << s_site, targets, now, catalog, pubOf, disk, tmp, bak, mem, hist >>

\* state = load_state()
LoadState ==
  /\ pc = "load"
  /\ LET l == load_state(disk, bak) IN
       /\ mem' = l.state
       /\ disk' = l.disk
       /\ bak' = l.bak
       /\ run' = [run EXCEPT !.loaded = disk.kind, !.reset = l.reset,
                             !.hadRec = (l.state.kind = "json"
                                         /\ l.state.alerts[run.key].present),
                             !.oldRec = l.state.alerts[run.key]]
       /\ hist' = IF l.reset
                    THEN [k \in Keys |-> [hist[k] EXCEPT !.resetSince = TRUE]]
                    ELSE hist
  /\ pc' = "seed"
  /\ UNCHANGED << s_site, targets, now, catalog, pubOf, tmp, startFiles >>

\* if seed_if_needed(state, key, email, items): return
SeedIfNeeded ==
  /\ pc = "seed"
  /\ LET s == seed_if_needed(mem, run.key, run.email, run.items, now) IN
       /\ mem' = s.state
       /\ IF s.raised
            THEN /\ run' = End(run, "raised")
                 /\ pc' = "ended"
                 /\ hist' = hist
            ELSE /\ run' = [run EXCEPT !.after = IF s.ret THEN "seeded" ELSE "detect",
                                       !.step = IF s.save THEN 1 ELSE 0,
                                       !.saveOld = IF s.save THEN disk ELSE Absent,
                                       !.saveNew = IF s.save THEN s.state ELSE Absent]
                 /\ pc' = IF s.save THEN "save" ELSE "detect"
                 /\ hist' = IF s.ret
                     THEN [hist EXCEPT ![run.key] =
                             [NoHist EXCEPT !.seeded = TRUE,
                                            !.seedCatalog = catalog,
                                            !.seedSeen = ids(run.items),
                                            !.seenPrev = hist[run.key].seenPrev,
                                            !.resetSince = hist[run.key].resetSince]]
                     ELSE hist
  /\ UNCHANGED << s_site, targets, now, catalog, pubOf, disk, tmp, bak, startFiles >>

\* new_items, to_email = detect_new_items(state, key, items), up to its save
DetectNewItems ==
  /\ pc = "detect"
  /\ LET d == detect_new_items(s_site, mem, run.key, run.items, now) IN
       /\ mem' = d.state
       /\ run' = [run EXCEPT !.new_list = d.new_list, !.to_email = d.email,
                             !.oldRec = mem.alerts[run.key],
                             !.after = "notify", !.step = 1, !.saveOld = disk,
                             !.saveNew = d.state]
  /\ pc' = "save"
  /\ UNCHANGED << s_site, targets, now, catalog, pubOf, disk, tmp, bak, startFiles,
                  hist >>

\* one step of save_state(state)
SaveStep ==
  /\ pc = "save"
  /\ LET w == save_state(run.step, disk, tmp, mem) IN
       /\ disk' = w.disk
       /\ tmp' = w.tmp
  /\ IF run.step < 3
       THEN /\ run' = [run EXCEPT !.step = @ + 1]
            /\ pc' = pc
       ELSE IF run.after = "seeded"
         THEN /\ run' = End(run, "seeded")
              /\ pc' = "ended"
         ELSE /\ run' = [run EXCEPT !.step = 0]
              /\ pc' = run.after
  /\ UNCHANGED << s_site, targets, now, catalog, pubOf, bak, mem, startFiles, hist >>

Bump(n) == Min(2, n + 1)

\* a run that goes on to the notifier with an empty list
NothingNew_never(new_items) == FALSE

\* "if not new_items: return"
NothingNew(new_items) == new_items = << >>

\* send_email_if_configured: SEND_EMAIL is not "1", int(SMTP_PORT) raises,
\* a setting is missing, the SMTP exchange raises (caught and logged), or
\* the message is sent
send_email_if_configured(enabled, port_ok, configured, smtp_ok) ==
  IF ~enabled THEN "disabled"
  ELSE IF ~port_ok THEN "raised"
  ELSE IF ~configured THEN "unconfigured"
  ELSE IF ~smtp_ok THEN "failed"
  ELSE "sent"

\* the end of run_once: "if not new_items: return", "if to_email:
\* send_email_if_configured(to_email, ..., new_items)"
Notify ==
  /\ pc = "notify"
  /\ IF NothingNew(run.new_list)
       THEN run' = End(run, "no_new") /\ hist' = hist
       ELSE IF run.to_email = ""
         THEN run' = End(run, "no_email") /\ hist' = hist
         ELSE /\ \E enabled \in BOOLEAN, port_ok \in BOOLEAN,
                    configured \in BOOLEAN, smtp_ok \in BOOLEAN :
                   run' = [End(run, "notified") EXCEPT
                             !.calls = @ + 1,
                             !.mailed = run.new_list,
                             !.delivery = send_email_if_configured(enabled, port_ok,
                                                                   configured, smtp_ok)]
              /\ hist' = [hist EXCEPT ![run.key].handed =
                            [i \in StoreIds |->
                               IF i \in ids(run.new_list) THEN Bump(@[i]) ELSE @[i]]]
  /\ pc' = "ended"
  /\ UNCHANGED << s_site, targets, now, catalog, pubOf, disk, tmp, bak, mem,
                  startFiles >>

\* the process dies in the middle of a run: the files stay as they are, what
\* the run held in memory is gone
Crash ==
  /\ pc \in { "load", "seed", "detect", "save", "notify" }
  /\ run' = [NoRun EXCEPT !.key = run.key, !.outcome = "crashed", !.at = pc,
                          !.items = IF pc = "notify" THEN run.items ELSE << >>,
                          !.saveOld = IF pc = "save" THEN run.saveOld ELSE Absent,
                          !.saveNew = IF pc = "save" THEN run.saveNew ELSE Absent]
  /\ mem' = EmptyState
  /\ pc' = "ended"
  /\ UNCHANGED << s_site, targets, now, catalog, pubOf, disk, tmp, bak,
                  startFiles, hist >>

\* the run is over; the next one starts from the files alone
Finish ==
  /\ pc = "ended"
  /\ pc' = "idle"
  /\ run' = NoRun
  /\ mem' = EmptyState
  /\ startFiles' = NoFiles
  /\ hist' = IF disk.kind = "json" /\ disk.alerts[run.key].present
               THEN [hist EXCEPT ![run.key].seenPrev = Range(disk.alerts[run.key].seen_codes),
                                 ![run.key].resetSince = FALSE]
               ELSE hist
  /\ UNCHANGED << s_site, targets, now, catalog, pubOf, disk, tmp, bak >>

NextStore ==
  \/ Publish /\ UNCHANGED outsideStore
  \/ Tick /\ UNCHANGED outsideStore
  \/ Corrupt /\ UNCHANGED outsideStore
  \/ RunStart /\ UNCHANGED outsideStore
  \/ LoadState /\ UNCHANGED outsideStore
  \/ SeedIfNeeded /\ UNCHANGED outsideStore
  \/ DetectNewItems /\ UNCHANGED outsideStore
  \/ SaveStep /\ UNCHANGED outsideStore
  \/ Notify /\ UNCHANGED outsideStore
  \/ Crash /\ UNCHANGED outsideStore
  \/ Finish /\ UNCHANGED outsideStore

----------------------------------------------------------------------------
(* SpecScroll: _collect_with_browser, the "load more" loop of Immo-KH      *)

N_STABLE == 3

MAX_CLICKS(p) == Max(5, p)

\* _click_load_more_and_wait: "absent" is (False, None), no control or not
\* visible in time; "timeout" is (True, None); "cards" and "empty" are
\* (True, text) with and without an item marker; "raised" is an exception
\* of locator.first.click().
ClickOutcomes == { "absent", "timeout", "cards", "empty", "raised" }

\* the break condition at the end of a cycle without progress
IsTerminal_anyControl(k, btn, backend) == k >= N_STABLE

IsTerminal(k, btn, backend) ==
  k >= N_STABLE /\ ~btn /\ (backend \/ k >= N_STABLE)

\* a counter that growth leaves as it is
next_stable_cycles_keep(progress, k) == IF progress THEN k ELSE k + 1

\* "stable_cycles = 0 ... continue", else "stable_cycles += 1"
next_stable_cycles(progress, k) == IF progress THEN 0 ELSE k + 1

InitScrollVars(p) ==
  /\ pages_max = p
  /\ b_pc = "start"
  /\ clicks = 0
  /\ stable_cycles = 0
  /\ last_cards = 0
  /\ last_height = 0
  /\ end_by_backend_empty = FALSE
  /\ has_btn = FALSE
  /\ final_before = 0
  /\ final_after = 0
  /\ cycles = 0
  /\ b_exit = "none"
  /\ growth = << >>

\* import of playwright, launch, page.goto and the first measures
BrowserOpen ==
  /\ b_pc = "start"
  /\ \E open \in { "noplaywright", "raised", "ok" },
        c0 \in 0..MaxCards, h0 \in 0..MaxHeight :
       /\ b_pc' = CASE open = "noplaywright" -> "done"
                    [] open = "raised" -> "raised"
                    [] OTHER -> "loop"
       /\ last_cards' = IF open = "ok" THEN c0 ELSE last_cards
       /\ last_height' = IF open = "ok" THEN h0 ELSE last_height
  /\ UNCHANGED << pages_max, clicks, stable_cycles, end_by_backend_empty,
                  has_btn, final_before, final_after, cycles, b_exit, growth >>

\* one iteration of "while clicks < MAX_CLICKS", followed by the loop test
ScrollCycle ==
  /\ b_pc = "loop"
  /\ clicks < MAX_CLICKS(pages_max)
  /\ cycles < MaxCycles
  /\ \E click \in ClickOutcomes, now_cards \in 0..MaxCards,
        now_height \in 0..MaxHeight, btn \in BOOLEAN :
       IF click = "raised"
       THEN /\ b_pc' = "raised"
            /\ UNCHANGED << clicks, stable_cycles, last_cards, last_height,
                            end_by_backend_empty, has_btn, cycles, b_exit, growth >>
       ELSE LET clicks1 == IF click # "absent" THEN clicks + 1 ELSE clicks
                backend1 == end_by_backend_empty \/ click = "empty"
                progress == now_cards > last_cards \/ now_height > last_height
                k1 == next_stable_cycles(progress, stable_cycles)
                stop == ~progress /\ IsTerminal(k1, btn, backend1)
            IN /\ clicks' = clicks1
               /\ end_by_backend_empty' = backend1
               /\ stable_cycles' = k1
               /\ last_cards' = IF progress THEN now_cards ELSE last_cards
               /\ last_height' = IF progress THEN now_height ELSE last_height
               /\ has_btn' = btn
               /\ cycles' = cycles + 1
               /\ growth' = Append(growth, progress)
               /\ b_exit' = CASE stop -> "terminal"
                              [] ~stop /\ clicks1 >= MAX_CLICKS(pages_max) -> "budget"
                              [] OTHER -> "none"
               /\ b_pc' = IF stop \/ clicks1 >= MAX_CLICKS(pages_max)
                          THEN "sweep" ELSE "loop"
  /\ UNCHANGED << pages_max, final_before, final_after >>

\* the final sweep, page.content() and the parse of the final DOM. The page
\* can raise in the first _count_cards, in page.evaluate(scrollTo), in the
\* second _count_cards or in page.content(): none of them is guarded
FinalSweep ==
  /\ b_pc = "sweep"
  /\ \E sweep \in { "count_before", "scroll", "count_after", "content", "ok" },
        fb \in 0..MaxCards, fa \in 0..MaxCards :
       /\ final_before' = IF sweep = "count_before" THEN final_before ELSE fb
       /\ final_after' = IF sweep \in { "content", "ok" } THEN fa ELSE final_after
       /\ b_pc' = IF sweep = "ok" THEN "done" ELSE "raised"
  /\ UNCHANGED << pages_max, clicks, stable_cycles, last_cards, last_height,
                  end_by_backend_empty, has_btn, cycles, b_exit, growth >>

NextScroll ==
  \/ BrowserOpen /\ UNCHANGED outsideScroll
  \/ ScrollCycle /\ UNCHANGED outsideScroll
  \/ FinalSweep /\ UNCHANGED outsideScroll

----------------------------------------------------------------------------
(* URLs and the canonicalizers of the three sites                          *)

\* A text (a parameter name or value) is a sequence of tokens whose
\* concatenation is the text.  The tokens are the characters "%", "+" and
\* " ", the escapes "%20" and "%25", and words of letters or digits ("a",
\* "paged", "20", ...) none of which is a concatenation of other tokens.
\* A URL is what urlparse makes of it: scheme, netloc, path and the query
\* as the sequence of its << name, value >> parameters, still encoded
\* (path parameters and fragment are copied unchanged and left out).
\* BadUrl is a text on which urlparse / urlsplit raise ValueError,
\* EmptyUrl the empty text.

Hosts == { "www.immoweb.be", "www.immotoma.be", "www.immo-kh.be", "other.example", "" }

Schemes == { "https", "" }

BadUrl == [kind |-> "bad", scheme |-> "", host |-> "", path |-> "", query |-> << >>]

EmptyUrl == [kind |-> "url", scheme |-> "", host |-> "", path |-> "", query |-> << >>]

\* what the canonicalizers of Immoweb and ImmoToma raise
ValueError == [kind |-> "ValueError", scheme |-> "", host |-> "", path |-> "", query |-> << >>]

IMMOWEB_HOST == "www.immoweb.be"
MT_SITE_HOST == "immotoma.be"
KH_SITE_HOST == "www.immo-kh.be"
KhListPath == "/fr/2/chercher-bien/a-vendre"

LIST_URL == [kind |-> "url", scheme |-> "https", host |-> KH_SITE_HOST,
             path |-> KhListPath, query |-> << >>]

ORDER_KEYS == << "newest", "most_recent" >>

\* "needle in netloc" of Python, on the hosts of the model
Contains(needle, netloc) ==
  \/ netloc = needle
  \/ needle = "immotoma.be" /\ netloc = "www.immotoma.be"

SiteHost(site) ==
  CASE site = "immoweb" -> IMMOWEB_HOST
    [] site = "marjorietome" -> MT_SITE_HOST
    [] OTHER -> KH_SITE_HOST

\* the encoded parameters a raw query is made of
RawPairs ==
  { << << "a" >>, << "1" >> >>,
    << << "b" >>, << "2" >> >>,
    << << "b" >>, << >> >>,
    << << "orderBy" >>, << "cheapest" >> >>,
    << << "orderBy" >>, << "newest" >> >>,
    << << "page" >>, << "2" >> >>,
    << << "page" >>, << "3" >> >>,
    << << "paged" >>, << "2" >> >>,
    << << "Paged" >>, << "3" >> >>,
    << << "%25", "+", "20" >>, << "1" >> >> }

RawQueries == UNION { [1..n -> RawPairs] : n \in 0..MaxParams }

RawUrls ==
  { [kind |-> "url", scheme |-> sc, host |-> h, path |-> "/s", query |-> q] :
      sc \in Schemes, h \in Hosts, q \in RawQueries }
  \cup { EmptyUrl, BadUrl }

\* urllib.parse.unquote_plus: "+" and "%20" are a space, "%25" is "%"
RECURSIVE unquote_plus(_)
unquote_plus(t) ==
  IF t = << >> THEN << >>
  ELSE IF Len(t) >= 2 /\ t[1] = "%" /\ t[2] = "20"
    THEN << " " >> \o unquote_plus(SubSeq(t, 3, Len(t)))
  ELSE << (CASE t[1] \in { "+", "%20" } -> " "
             [] t[1] = "%25" -> "%"
             [] OTHER -> t[1]) >> \o unquote_plus(Tail(t))

\* urllib.parse.quote_plus
quote_plus(t) ==
  [i \in 1..Len(t) |-> CASE t[i] = " " -> "+"
                         [] t[i] = "%" -> "%25"
                         [] OTHER -> t[i]]

\* str.replace("%20", " ")
RECURSIVE ReplacePct20(_)
ReplacePct20(t) ==
  IF t = << >> THEN << >>
  ELSE IF Len(t) >= 2 /\ t[1] = "%" /\ t[2] = "20"
    THEN << " " >> \o ReplacePct20(SubSeq(t, 3, Len(t)))
  ELSE << (IF t[1] = "%20" THEN " " ELSE t[1]) >> \o ReplacePct20(Tail(t))

\* _clean_param_name: "%20" to a space, runs of whitespace to one space,
\* strip, then every space removed
clean_param_name(name) ==
  SelectSeq(ReplacePct20(name), LAMBDA tok : tok # " ")

\* str.lower on the words of the model
lower(t) == [i \in 1..Len(t) |-> IF t[i] = "Paged" THEN "paged" ELSE t[i]]

\* the parameters of pairs whose name is not in names and did not occur
\* before: the insertion order of a dict filled in one pass
RECURSIVE FirstByKey(_, _)
FirstByKey(pairs, names) ==
  IF pairs = << >> THEN << >>
  ELSE IF pairs[1][1] \in names THEN FirstByKey(Tail(pairs), names)
  ELSE << pairs[1] >> \o FirstByKey(Tail(pairs), names \cup { pairs[1][1] })

HasValue(pair) == pair[2] # << >>

\* parse_qsl(query, keep_blank_values=True): names and values decoded
parse_qsl(query) ==
  [i \in 1..Len(query) |-> << unquote_plus(query[i][1]), unquote_plus(query[i][2]) >>]

\* parse_qs(query) read as { k: v[0] }: blank values dropped, first value
\* of each name, names in the order of their first occurrence
parse_qs_first(query) == FirstByKey(parse_qsl(SelectSeq(query, HasValue)), {})

\* urlencode of a dict
urlencode(pairs) ==
  [i \in 1..Len(pairs) |-> << quote_plus(pairs[i][1]), quote_plus(pairs[i][2]) >>]

\* q["orderBy"] = [ORDER_KEYS[0]]: in place when the name is there, else last
SetOrderBy(pairs) ==
  IF \E i \in 1..Len(pairs) : pairs[i][1] = << "orderBy" >>
  THEN [i \in 1..Len(pairs) |->
          IF pairs[i][1] = << "orderBy" >> THEN << pairs[i][1], << ORDER_KEYS[1] >> >>
          ELSE pairs[i]]
  ELSE Append(pairs, << << "orderBy" >>, << ORDER_KEYS[1] >> >>)

normalize_immoweb_url(u) ==
  IF u.kind = "bad" THEN ValueError
  ELSE IF ~Contains(IMMOWEB_HOST, u.host) THEN ValueError
  ELSE [u EXCEPT !.query =
          urlencode(SelectSeq(SetOrderBy(parse_qs_first(u.query)),
                              LAMBDA pair : pair[1] # << "page" >>))]

CleanNames(pairs) ==
  [i \in 1..Len(pairs) |-> << clean_param_name(pairs[i][1]), pairs[i][2] >>]

canonicalize_marjorietome_url(u) ==
  IF u.kind = "bad" THEN ValueError
  ELSE IF ~Contains(MT_SITE_HOST, u.host) THEN ValueError
  ELSE [u EXCEPT !.query =
          urlencode(FirstByKey(SelectSeq(CleanNames(parse_qsl(u.query)),
                                         LAMBDA pair : lower(pair[1]) # << "paged" >>),
                               {}))]

canonicalize_list_url(u) ==
  IF u = EmptyUrl THEN LIST_URL
  ELSE IF u.kind = "bad" THEN LIST_URL
  ELSE [kind |-> "url",
        scheme |-> IF u.scheme = "" THEN "https" ELSE u.scheme,
        host |-> IF u.host = "" THEN KH_SITE_HOST ELSE u.host,
        path |-> KhListPath,
        query |-> << >>]

\* the canonicalizer run_once of the site applies to its URL argument
Canonicalizer(site, u) ==
  CASE site = "immoweb" -> normalize_immoweb_url(u)
    [] site = "marjorietome" -> canonicalize_marjorietome_url(u)
    [] OTHER -> canonicalize_list_url(u)

\* ---- raw URLs that are variants of one another

Reorderings(q) ==
  { [i \in 1..Len(q) |-> q[f[i]]] :
      f \in { g \in [1..Len(q) -> 1..Len(q)] : \A i, j \in 1..Len(q) : i # j => g[i] # g[j] } }

SortParam(pair) == unquote_plus(pair[1]) = << "orderBy" >>

\* the page-number parameter of the site: page (Immoweb), paged (ImmoToma)
PageParam(site, pair) ==
  CASE site = "immoweb" -> unquote_plus(pair[1]) = << "page" >>
    [] site = "marjorietome" -> lower(unquote_plus(pair[1])) = << "paged" >>
    [] OTHER -> FALSE

\* same parameters at the same places, except that sort parameters may
\* carry another sort order and page parameters another page number
SortOrPageOnly(site, q, r) ==
  /\ Len(q) = Len(r)
  /\ \A i \in 1..Len(q) :
       \/ q[i] = r[i]
       \/ SortParam(q[i]) /\ r[i][1] = q[i][1] /\ HasValue(q[i]) /\ HasValue(r[i])
       \/ PageParam(site, q[i]) /\ PageParam(site, r[i])

SameButQuery(u, v) ==
  /\ u.kind = "url" /\ v.kind = "url"
  /\ u.scheme = v.scheme /\ u.host = v.host /\ u.path = v.path

DiffersOnlyInSortOrPage(site, u, v) ==
  SameButQuery(u, v) /\ SortOrPageOnly(site, u.query, v.query)

DiffersOnlyInParamOrder(u, v) ==
  SameButQuery(u, v) /\ v.query \in Reorderings(u.query)

Variants(site, u) ==
  { v \in RawUrls : DiffersOnlyInSortOrPage(site, u, v) \/ DiffersOnlyInParamOrder(u, v) }
  \cup { u }

----------------------------------------------------------------------------
(* SpecCanon: a canonicalizer applied to raw URLs, and the head of run_once *)

NotRun == [kind |-> "none", scheme |-> "", host |-> "", path |-> "", query |-> << >>]

InitCanonVars(site, u, v) ==
  /\ u_site = site
  /\ raw1 = u
  /\ raw2 = v
  /\ out1 = NotRun
  /\ out2 = NotRun
  /\ again1 = NotRun
  /\ cn_pc = "start"
  /\ ro_pc = "start"

\* the canonicalizer of the site applied to the two raw URLs
Canonicalize ==
  /\ cn_pc = "start"
  /\ out1' = Canonicalizer(u_site, raw1)
  /\ out2' = Canonicalizer(u_site, raw2)
  /\ cn_pc' = "once"
  /\ UNCHANGED << u_site, raw1, raw2, again1, ro_pc >>

\* the canonicalizer applied to its own output
Recanonicalize ==
  /\ cn_pc = "once"
  /\ out1.kind = "url"
  /\ again1' = Canonicalizer(u_site, out1)
  /\ cn_pc' = "twice"
  /\ UNCHANGED << u_site, raw1, raw2, out1, out2, ro_pc >>

\* run_once up to the crawl: Immoweb and ImmoToma log "URL invalide" and
\* return on ValueError, Immo-KH goes on with what canonicalize_list_url gave
RunOnceHead ==
  /\ ro_pc = "start"
  /\ ro_pc' = IF Canonicalizer(u_site, raw1).kind = "ValueError"
              THEN "returned" ELSE "crawl"
  /\ UNCHANGED << u_site, raw1, raw2, out1, out2, again1, cn_pc >>

NextCanon ==
  \/ Canonicalize /\ UNCHANGED outsideCanon
  \/ Recanonicalize /\ UNCHANGED outsideCanon
  \/ RunOnceHead /\ UNCHANGED outsideCanon

----------------------------------------------------------------------------
(* SpecFilter: apply_filters of Immo-KH                                    *)

\* The text of an item (title and city, lowered) is the set of its words
\* ("mons", "la", "villa", "flat", "vendu", "option"); "c in txt_all" holds
\* when the word c is inside one of them.

Within(c, w) == c = w \/ << c, w >> \in { << "la", "villa" >>, << "la", "flat" >> }

InText(c, text) == \E w \in text : Within(c, w)

\* TYPE_ALIASES, in the order of the dict, for the words of the model
TYPE_ALIASES == << << "maison", { "maison", "villa" } >>,
                   << "appartement", { "appartement", "flat" } >> >>

\* _classify_type: the first canonical type one of whose words is in the
\* text, "" for None
classify_type(text) ==
  IF \E i \in 1..Len(TYPE_ALIASES) : \E w \in TYPE_ALIASES[i][2] : InText(w, text)
  THEN TYPE_ALIASES[CHOOSE i \in 1..Len(TYPE_ALIASES) :
                      /\ \E w \in TYPE_ALIASES[i][2] : InText(w, text)
                      /\ \A j \in 1..(i - 1) : \A w \in TYPE_ALIASES[j][2] : ~InText(w, text)][1]
  ELSE ""

\* str(t).strip().lower() on the type names of the model
norm_type(t) ==
  CASE t \in { "Maison", " maison" } -> "maison"
    [] t = " " -> ""
    [] OTHER -> t

\* _norm_types: the normalised names, blank ones dropped
norm_types(ts) ==
  SelectSeq([i \in 1..Len(ts) |-> norm_type(ts[i])], LAMBDA t : t # "")

\* "if not filters": None and {} alike
NoFilters == [given |-> FALSE, cities |-> << >>, price_min |-> NoneInt,
              price_max |-> NoneInt, bedrooms_min |-> NoneInt,
              property_types |-> << >>, include_sold |-> FALSE]

FilterSets ==
  { NoFilters } \cup
  [given : { TRUE }, cities : { << >>, << "mons" >>, << "la" >> },
   price_min : { NoneInt, 200000 }, price_max : { NoneInt, 200000, 300000 },
   bedrooms_min : { NoneInt, 0, 2 },
   property_types : { << >>, << "Maison" >>, << " " >> },
   include_sold : BOOLEAN]

\* items: price and bedrooms are NoneInt for None, type is "" for None
FilterItems ==
  LET base == [id |-> 1, price |-> 250000, bedrooms |-> 2, type |-> "maison",
               text |-> { "mons" }]
  IN { base,
       [base EXCEPT !.id = 2, !.price = NoneInt],
       [base EXCEPT !.id = 3, !.price = 150000],
       [base EXCEPT !.id = 4, !.price = 350000],
       [base EXCEPT !.id = 5, !.bedrooms = NoneInt],
       [base EXCEPT !.id = 6, !.bedrooms = 1],
       [base EXCEPT !.id = 7, !.type = ""],
       [base EXCEPT !.id = 8, !.type = "", !.text = { "villa" }],
       [base EXCEPT !.id = 9, !.type = "appartement", !.text = { "flat" }],
       [base EXCEPT !.id = 10, !.text = { "mons", "vendu" }],
       [base EXCEPT !.id = 11, !.text = { "option" }, !.bedrooms = NoneInt,
                    !.price = NoneInt, !.type = ""] }

\* "if city_q and not any(c in txt_all for c in city_q.split())"
FailsCity(text, cities) ==
  cities # << >> /\ ~\E i \in 1..Len(cities) : InText(cities[i], text)

\* "if types: t = ...; if not t or t not in types"
FailsType(it, types) ==
  LET t == IF it.type # "" THEN it.type ELSE classify_type(it.text)
  IN types # << >> /\ (t = "" \/ ~\E i \in 1..Len(types) : types[i] = t)

\* "price_min is not None and (p is None or p < price_min)"
FailsPriceMin(p, price_min) ==
  price_min # NoneInt /\ (p = NoneInt \/ p < price_min)

FailsPriceMax_never(p, price_max) == FALSE

\* "price_max is not None and (p is None or p > price_max)"
FailsPriceMax(p, price_max) ==
  price_max # NoneInt /\ (p = NoneInt \/ p > price_max)

FailsBedrooms_knownOnly(b, bedrooms_min) ==
  bedrooms_min # NoneInt /\ b # NoneInt /\ b < bedrooms_min

\* "bedrooms_min is not None and ((b or 0) < bedrooms_min)"
FailsBedrooms(b, bedrooms_min) ==
  bedrooms_min # NoneInt /\ (IF b = NoneInt THEN 0 ELSE b) < bedrooms_min

\* "not include_sold and ('vendu' in txt_all or 'option' in txt_all)"
FailsSold(text, include_sold) ==
  ~include_sold /\ (InText("vendu", text) \/ InText("option", text))

\* the body of "for it in items": FALSE at the first "continue"
Keeps(it, f) ==
  IF FailsCity(it.text, f.cities) THEN FALSE
  ELSE IF FailsType(it, norm_types(f.property_types)) THEN FALSE
  ELSE IF FailsPriceMin(it.price, f.price_min) THEN FALSE
  ELSE IF FailsPriceMax(it.price, f.price_max) THEN FALSE
  ELSE IF FailsBedrooms(it.bedrooms, f.bedrooms_min) THEN FALSE
  ELSE IF FailsSold(it.text, f.include_sold) THEN FALSE
  ELSE TRUE

RECURSIVE FilterLoop(_, _)
FilterLoop(items, f) ==
  IF items = << >> THEN << >>
  ELSE (IF Keeps(items[1], f) THEN << items[1] >> ELSE << >>)
       \o FilterLoop(Tail(items), f)

apply_filters(items, f) ==
  IF ~f.given THEN items ELSE FilterLoop(items, f)

InitFilterVars(items, f) ==
  /\ f_items = items
  /\ f_filters = f
  /\ f_out = << >>
  /\ f_pc = "start"

ApplyFilters ==
  /\ f_pc = "start"
  /\ f_out' = apply_filters(f_items, f_filters)
  /\ f_pc' = "done"
  /\ UNCHANGED << f_items, f_filters >>

NextFilter ==
  \/ ApplyFilters /\ UNCHANGED outsideFilter

----------------------------------------------------------------------------
(* SpecBatch: batch_alertme.main, the alerts of a JSONL run in series      *)

\* The "site" of an effective alert: the three modules of the repository,
\* a site with no alertme_<site> module ("nomodule": the import raises) and
\* a module that exposes no callable run_once ("norunonce").
BatchSites == Sites \cup { "nomodule", "norunonce" }

\* dispatch_run: "ok" when run_once returned, else the exception raised
dispatch_run(site, run_raises) ==
  CASE site = "nomodule" -> "import_error"
    [] site = "norunonce" -> "runtime_error"
    [] run_raises -> "run_raised"
    [] OTHER -> "ok"

\* "if args.stop_on_error: break" of the except branch
StopsBatch_always(failed, flag) == failed

StopsBatch(failed, flag) == failed /\ flag

InitBatchVars(flag) ==
  /\ batch_alerts = << >>
  /\ stop_on_error = flag
  /\ bt_pc = "start"
  /\ idx = 1
  /\ ok = 0
  /\ fail = << >>
  /\ attempted = << >>

\* read_jsonl_effective_items and the exit on an empty list
BatchStart ==
  /\ bt_pc = "start"
  /\ \E a \in UNION { [1..n -> BatchSites] : n \in 0..MaxAlerts } :
       /\ batch_alerts' = a
       /\ bt_pc' = IF a = << >> THEN "exit" ELSE "loop"
  /\ UNCHANGED << stop_on_error, idx, ok, fail, attempted >>

\* one iteration of "for idx, a in enumerate(alerts, 1)"
BatchAlert ==
  /\ bt_pc = "loop"
  /\ \E run_raises \in BOOLEAN :
       LET res == dispatch_run(batch_alerts[idx], run_raises)
           failed == res # "ok"
       IN /\ attempted' = Append(attempted, idx)
          /\ ok' = IF failed THEN ok ELSE ok + 1
          /\ fail' = IF failed THEN Append(fail, idx) ELSE fail
          /\ IF StopsBatch(failed, stop_on_error) \/ idx = Len(batch_alerts)
             THEN bt_pc' = "done" /\ idx' = idx
             ELSE bt_pc' = "loop" /\ idx' = idx + 1
  /\ UNCHANGED << batch_alerts, stop_on_error >>

NextBatch ==
  \/ BatchStart /\ UNCHANGED outsideBatch
  \/ BatchAlert /\ UNCHANGED outsideBatch

----------------------------------------------------------------------------
(* SpecCrawl: one crawl                                                    *)

\* an alert with no field set
NoAlert == [site |-> "", url |-> EmptyUrl, email |-> "", filters |-> "none",
            pages |-> 0, use_browser |-> "none"]

\* the session is in no append_event call; in a call, pc is the step that
\* comes next ("call": the GET of gh_append_line or the append to the local
\* file, "get_sha": the GET of gh_put_file, "put": the PUT, "returned": the
\* call is over and the card of a delete is still to be removed), absent
\* whether the first GET answered 404, seen the content whose sha the PUT
\* will carry, at the length of the journal the write left (-1 when it
\* failed)
NoReq == [pc |-> "idle", op |-> "none", card |-> 0, absent |-> FALSE, seen |-> << >>,
          at |-> 0,
          row |-> [action |-> "", site |-> "", url |-> EmptyUrl, email |-> "",
                   filters |-> "none", pages |-> 0, use_browser |-> "none"],
          before |-> NoAlert, after |-> NoAlert]

\* no form of the UI was submitted: op is the kind of the last submission,
\* at the length of the journal after it (-1 when its append failed), lost
\* the number of submissions whose append failed
NoUiOp == [op |-> "none", at |-> 0, lost |-> 0, before |-> NoAlert, after |-> NoAlert]

\* alerts.jsonl holds the given rows; no session, no batch yet
InitJournalWith(store, lines) ==
  /\ storage = store
  /\ journal = lines
  /\ ui_open = FALSE
  /\ ui_alerts = << >>
  /\ ui_req = NoReq
  /\ worktree = << >>
  /\ effective = << >>
  /\ read_pc = "none"
  /\ written = 0
  /\ last_ui = NoUiOp

InitJournalVars == InitJournalWith("github", << >>)

InitCrawlVars(site, pages) ==
  /\ c_site = site
  /\ c_pages = pages
  /\ c_pc = IF site = "immokh" THEN "p1" ELSE "page"
  /\ all_items = << >>
  /\ seen = {}
  /\ cursor_id = NoneInt
  /\ page_index = IF site = "immokh" THEN 0 ELSE 1
  /\ psize_ix = 1
  /\ advanced = FALSE
  /\ c_steps = 0
  /\ prev_cursor = NoneInt
  /\ c_succ = 0
  /\ tried = {}
  /\ page_items = << >>

InitCrawl ==
  /\ \E site \in Sites, pages \in 0..MaxPages : InitCrawlVars(site, pages)
  /\ InitStoreVars("immokh", {})
  /\ InitScrollVars(0)
  /\ InitBatchVars(FALSE)
  /\ InitCanonVars("immokh", EmptyUrl, EmptyUrl)
  /\ InitFilterVars(<< >>, NoFilters)
  /\ InitJournalVars

\* _collect_all_pages, page 1: one attempt of "for psize in (12, 48)"
\* followed, when the loop ends, by the cursor initialisation.
KhAfterFirstPage(acc, sn) ==
  LET cur == min_int_id(acc) IN
  /\ all_items' = acc
  /\ seen' = sn
  /\ IF acc = << >> \/ cur = NoneInt \/ cur = 0
       THEN /\ c_pc' = "done"
            /\ cursor_id' = IF acc = << >> THEN NoneInt ELSE cur
            /\ page_index' = page_index
       ELSE /\ c_pc' = "loop"
            /\ cursor_id' = cur
            /\ page_index' = 1

KhFirstPageAttempt ==
  /\ c_pc = "p1"
  /\ \E res \in FetchResults :
       LET items == parse_cards_from_html(res.html)
           hit == AttemptUsable(res) /\ items # << >>
           add == AddFirstPage(all_items, seen, items)
       IN
       /\ c_steps' = 1
       /\ tried' = tried \cup Sent(PSIZES[psize_ix], res)
       /\ page_items' = IF ~res.raised /\ AttemptUsable(res) THEN items ELSE << >>
       /\ IF res.raised
            THEN /\ c_pc' = "raised"
                 /\ UNCHANGED << all_items, seen, cursor_id, page_index, psize_ix >>
            ELSE IF hit
              THEN /\ KhAfterFirstPage(add.all, add.seen)
                   /\ UNCHANGED psize_ix
              ELSE IF psize_ix < Len(PSIZES)
                THEN /\ psize_ix' = psize_ix + 1
                     /\ UNCHANGED << c_pc, all_items, seen, cursor_id, page_index >>
                ELSE /\ KhAfterFirstPage(all_items, seen)
                     /\ UNCHANGED psize_ix
  /\ UNCHANGED << c_site, c_pages, advanced, prev_cursor, c_succ >>

\* head of "while page_index < max_pages"
KhLoopHead ==
  /\ c_pc = "loop"
  /\ IF KhLoopGuard(page_index, c_pages)
       THEN /\ page_index' = page_index + 1
            /\ advanced' = FALSE
            /\ psize_ix' = 1
            /\ c_steps' = c_steps + 1
            /\ tried' = {}
            /\ c_pc' = "attempt"
       ELSE /\ c_pc' = "done"
            /\ UNCHANGED << page_index, advanced, psize_ix, c_steps, tried >>
  /\ UNCHANGED << c_site, c_pages, all_items, seen, cursor_id, prev_cursor, c_succ,
                  page_items >>

\* one attempt of the inner "for psize in (12, 48)" of a cursor step
KhCursorAttempt ==
  /\ c_pc = "attempt"
  /\ \E res \in FetchResults :
       LET test_items == parse_cards_from_html(res.html)
           add == AddCursorPage(all_items, seen, cursor_id, test_items, 0, NoneInt)
           hit == AttemptUsable(res) /\ test_items # << >> /\ add.addc # 0
       IN
       /\ tried' = tried \cup Sent(PSIZES[psize_ix], res)
       /\ page_items' = IF ~res.raised /\ AttemptUsable(res) THEN test_items ELSE << >>
       /\ IF res.raised
         THEN /\ c_pc' = "raised"
              /\ UNCHANGED << all_items, seen, cursor_id, psize_ix, advanced,
                              prev_cursor, c_succ >>
         ELSE IF hit
           THEN /\ all_items' = add.all
                /\ seen' = add.seen
                /\ cursor_id' = IF add.new_min # NoneInt THEN add.new_min ELSE cursor_id
                /\ prev_cursor' = cursor_id
                /\ c_succ' = c_succ + 1
                /\ advanced' = TRUE
                /\ c_pc' = "loop"
                /\ UNCHANGED psize_ix
           ELSE /\ UNCHANGED << all_items, seen, cursor_id, advanced, prev_cursor, c_succ >>
                /\ IF psize_ix < Len(PSIZES)
                     THEN psize_ix' = psize_ix + 1 /\ c_pc' = c_pc
                     ELSE psize_ix' = psize_ix /\ c_pc' = "done"
  /\ UNCHANGED << c_site, c_pages, page_index, c_steps >>

\* "for page in range(1, max(1, pages) + 1)"
InPageRange(page, pages) == page <= max_pages(pages)

\* What one page of a page loop yields after extraction: nothing, or cards
\* (kept to the first card of the page; the same listing may come back on a
\* later page).
LoopPages == { << >> } \cup { << i >> : i \in KhIds }

\* Immoweb, one page: __NEXT_DATA__ of the first variant that has it, else
\* the HTML of the first variant that yields cards, else (USE_SELENIUM) the
\* rendered page.
IwPageItems(nx, hf, use_selenium, sel) ==
  IF nx # << >> THEN nx
  ELSE IF hf # << >> THEN hf
  ELSE IF use_selenium THEN sel
  ELSE << >>

IwPageOutcomes ==
  { IwPageItems(nx, hf, us, sel) :
      nx \in LoopPages, hf \in LoopPages, us \in BOOLEAN, sel \in LoopPages }

\* alertme_immoweb.run_once, one iteration of the page loop.
\* extract_items_from_next is not guarded: on a listing whose title is not a
\* text or whose price is not a finite number it raises out of run_once.
IwPage ==
  /\ c_pc = "page"
  /\ c_site = "immoweb"
  /\ IF InPageRange(page_index, c_pages)
       THEN \E extract_raises \in BOOLEAN, items \in IwPageOutcomes :
              /\ c_steps' = c_steps + 1
              /\ IF extract_raises
                   THEN c_pc' = "raised" /\ UNCHANGED << all_items, page_index >>
                   ELSE IF items = << >>
                   THEN c_pc' = "done" /\ UNCHANGED << all_items, page_index >>
                   ELSE /\ all_items' = all_items \o items
                        /\ page_index' = page_index + 1
                        /\ c_pc' = c_pc
       ELSE c_pc' = "done" /\ UNCHANGED << all_items, page_index, c_steps >>
  /\ UNCHANGED << c_site, c_pages, seen, cursor_id, psize_ix, advanced,
                  prev_cursor, c_succ, tried, page_items >>

\* alertme_marjorietome.run_once, one iteration of the page loop:
\* fetch_html gives no html (error status, exception) or a page, and
\* extract_items_from_search_html, which is not guarded, raises on a JSON-LD
\* offer whose price is a number.
MtPage ==
  /\ c_pc = "page"
  /\ c_site = "marjorietome"
  /\ IF InPageRange(page_index, c_pages)
       THEN \E got_html \in BOOLEAN, extract_raises \in BOOLEAN, cards \in LoopPages :
              LET items == IF got_html THEN cards ELSE << >> IN
              /\ c_steps' = c_steps + 1
              /\ IF got_html /\ extract_raises
                   THEN c_pc' = "raised" /\ UNCHANGED << all_items, page_index >>
                   ELSE IF items = << >>
                   THEN c_pc' = "done" /\ UNCHANGED << all_items, page_index >>
                   ELSE /\ all_items' = all_items \o items
                        /\ page_index' = page_index + 1
                        /\ c_pc' = c_pc
       ELSE c_pc' = "done" /\ UNCHANGED << all_items, page_index, c_steps >>
  /\ UNCHANGED << c_site, c_pages, seen, cursor_id, psize_ix, advanced,
                  prev_cursor, c_succ, tried, page_items >>

NextCrawl ==
  \/ KhFirstPageAttempt /\ UNCHANGED outsideCrawl
  \/ KhLoopHead /\ UNCHANGED outsideCrawl
  \/ KhCursorAttempt /\ UNCHANGED outsideCrawl
  \/ IwPage /\ UNCHANGED outsideCrawl
  \/ MtPage /\ UNCHANGED outsideCrawl

SpecCrawl == InitCrawl /\ [][NextCrawl]_vars

\* Every step of a crawl is taken by the one thread that runs it.
FairSpecCrawl == SpecCrawl /\ WF_vars(NextCrawl)

InitStore ==
  /\ \E site \in Sites : InitStoreVars(site, { "k1" })
  /\ InitCrawlVars("immokh", 0)
  /\ InitScrollVars(0)
  /\ InitBatchVars(FALSE)
  /\ InitCanonVars("immokh", EmptyUrl, EmptyUrl)
  /\ InitFilterVars(<< >>, NoFilters)
  /\ InitJournalVars

SpecStore == InitStore /\ [][NextStore]_vars

InitScroll ==
  /\ \E p \in { 1, MaxScrollPages } : InitScrollVars(p)
  /\ InitCrawlVars("immokh", 0)
  /\ InitStoreVars("immokh", {})
  /\ InitBatchVars(FALSE)
  /\ InitCanonVars("immokh", EmptyUrl, EmptyUrl)
  /\ InitFilterVars(<< >>, NoFilters)
  /\ InitJournalVars

SpecScroll == InitScroll /\ [][NextScroll]_vars

InitBatch ==
  /\ \E flag \in BOOLEAN : InitBatchVars(flag)
  /\ InitCrawlVars("immokh", 0)
  /\ InitStoreVars("immokh", {})
  /\ InitScrollVars(0)
  /\ InitCanonVars("immokh", EmptyUrl, EmptyUrl)
  /\ InitFilterVars(<< >>, NoFilters)
  /\ InitJournalVars

SpecBatch == InitBatch /\ [][NextBatch]_vars

InitCanon ==
  /\ \E site \in Sites, u \in RawUrls : \E v \in Variants(site, u) :
        InitCanonVars(site, u, v)
  /\ InitCrawlVars("immokh", 0)
  /\ InitStoreVars("immokh", {})
  /\ InitScrollVars(0)
  /\ InitBatchVars(FALSE)
  /\ InitFilterVars(<< >>, NoFilters)
  /\ InitJournalVars

SpecCanon == InitCanon /\ [][NextCanon]_vars

InitFilter ==
  /\ \E items \in DistinctSeqs(FilterItems, 0, MaxItems), f \in FilterSets :
        InitFilterVars(items, f)
  /\ InitCrawlVars("immokh", 0)
  /\ InitStoreVars("immokh", {})
  /\ InitScrollVars(0)
  /\ InitBatchVars(FALSE)
  /\ InitCanonVars("immokh", EmptyUrl, EmptyUrl)
  /\ InitJournalVars

SpecFilter == InitFilter /\ [][NextFilter]_vars

CrawlEnded == c_pc \in { "done", "raised" }

----------------------------------------------------------------------------
(* Claims about the pagination loops                                       *)

HasRec(f, k) == f.kind = "json" /\ f.alerts[k].present

SeenOf(f, k) == Range(f.alerts[k].seen_codes)

\* C9 - Cursor strictly decreases: after every successful page step of the
\* cursor engine the cursor is strictly less than it was before the step.
C9_CursorStrictlyDecreases ==
  (c_site = "immokh" /\ c_succ > 0) => cursor_id < prev_cursor

C9_Witness ==
  /\ c_site = "immokh" /\ c_succ >= 2 /\ cursor_id < prev_cursor
  /\ Len(all_items) >= 3

\* C10 - Page budget: every pagination loop ends, and it performs at most
\* max(1, pages) page steps, the first page counted as one.
C10_PageBudget ==
  /\ [](c_steps <= Max(1, c_pages))
  /\ <>CrawlEnded

C10_Witness_Kh == c_site = "immokh" /\ c_pc = "done" /\ c_pages >= 2 /\ c_steps = c_pages

\* the cursor engine gave up at a cursor step: no attempt advanced
StoppedOnMiss ==
  c_site = "immokh" /\ c_pc = "done" /\ page_index >= 2 /\ ~advanced

\* C11 - The cursor engine stops before its page budget is exhausted only
\* at a step where every combination of page size (12, 48) and transport
\* (GET, POST) has been tried and has missed.
C11_StopsOnlyAfterAllCombinations ==
  StoppedOnMiss => tried = Combinations

\* C12 - A transport fault on one attempt of a cursor step is not fatal: the
\* engine does not end by the exception, it goes on with the next attempt
\* and returns the items collected so far.
C12_TransportFaultNonFatal ==
  (c_site = "immokh" /\ page_index >= 2) => c_pc # "raised"

----------------------------------------------------------------------------
(* Claims about the scroll detector                                        *)

\* C13 - Detector termination: whatever the observed signals are, the scroll
\* loop runs at most as many cycles as the cycle budget derived from pages.
C13_HaltsWithinCycleBudget ==
  cycles <= MAX_CLICKS(pages_max)

\* C14 - The detector leaves the loop as terminal only in a cycle where the
\* count of consecutive no-progress cycles is at least N (3) and the
\* load-more control is absent or disabled, and a cycle that ends in this
\* condition is terminal whether or not the backend-exhausted flag is set.
C14_TerminalOnlyWhenStableAndNoControl ==
  /\ b_exit = "terminal" => (stable_cycles >= N_STABLE /\ ~has_btn)
  /\ b_pc = "loop" => ~(stable_cycles >= N_STABLE /\ ~has_btn)

C14_Witness ==
  /\ b_pc = "sweep" /\ b_exit = "terminal" /\ ~end_by_backend_empty
  /\ clicks < MAX_CLICKS(pages_max)

\* C15 - Final sweep: the detector finishes only after a final sweep that
\* added nothing; a sweep that made the rendered item count grow sends it
\* back to the progressing state with k = 0.
C15_FinishesOnlyAfterEmptySweep ==
  (b_pc = "done" /\ b_exit # "none") => final_after <= final_before

----------------------------------------------------------------------------
(* Claims about the batch runner                                           *)

\* << 1, ..., n >>
UpTo(n) == [i \in 1..n |-> i]

\* C16 (as stated) - Batch isolation: a failure of one target never prevents
\* the following targets from being run; every effective alert of the batch
\* is attempted exactly once, in order.
C16_EveryAlertAttempted ==
  bt_pc = "done" => attempted = UpTo(Len(batch_alerts))

\* C16 (amended) - The alerts are attempted in order, each at most once; a
\* batch started without --stop-on-error attempts every effective alert
\* whatever fails, and a batch started with --stop-on-error ends after its
\* first failed alert.
C16_IsolationUnlessStopOnError ==
  /\ \E n \in 0..Len(batch_alerts) : attempted = UpTo(n)
  /\ (bt_pc = "done" /\ ~stop_on_error) => attempted = UpTo(Len(batch_alerts))
  /\ (bt_pc = "done" /\ stop_on_error) =>
       \/ attempted = UpTo(Len(batch_alerts)) /\ fail = << >>
       \/ fail = << Len(attempted) >>
  /\ ok + Len(fail) = Len(attempted)

C16_Witness ==
  /\ bt_pc = "done" /\ ~stop_on_error
  /\ Len(batch_alerts) = 3 /\ fail = << 1, 2 >> /\ ok = 1
  /\ batch_alerts[1] = "nomodule" /\ batch_alerts[2] = "norunonce"

----------------------------------------------------------------------------
(* Claims about the canonicalizers                                         *)

\* C17 - Canonicalization idempotence: for every raw URL a site's
\* canonicalizer accepts, the canonicalizer applied to its own output
\* returns that output unchanged.
C17_Idempotent ==
  cn_pc = "twice" => again1 = out1

\* C18 - Two raw URLs of Immoweb or of ImmoToma that differ only in the
\* requested sort order or in the page number have the same canonical URL.
C18_SortAndPageInsensitive ==
  ( /\ cn_pc # "start"
    /\ u_site \in { "immoweb", "marjorietome" }
    /\ DiffersOnlyInSortOrPage(u_site, raw1, raw2) )
  => out1 = out2

\* C19 - Two raw URLs that carry the same query parameters with the same
\* values in a different order have the same canonical URL.
C19_ParamOrderInsensitive ==
  (cn_pc # "start" /\ DiffersOnlyInParamOrder(raw1, raw2)) => out1 = out2

\* the URL cannot be parsed, or names a host that is not the site's
HostMismatch(site, u) ==
  \/ u.kind = "bad"
  \/ u.host # "" /\ ~Contains(SiteHost(site), u.host)

\* C20 - InvalidTarget: for a URL that cannot be parsed or whose host is not
\* the site's, canonicalization fails and run_once returns before any
\* crawl, state record or notification.
C20_InvalidTargetStopsRun ==
  /\ (cn_pc # "start" /\ HostMismatch(u_site, raw1)) => out1 = ValueError
  /\ (ro_pc # "start" /\ HostMismatch(u_site, raw1)) => ro_pc = "returned"

----------------------------------------------------------------------------
(* Claims about the filter engine                                          *)

\* the predicates a filter set configures, and whether one holds for an item
Configured(f) ==
  IF ~f.given THEN {}
  ELSE { k \in { "price_min", "price_max", "bedrooms_min" } : f[k] # NoneInt }
       \cup (IF f.cities # << >> THEN { "cities" } ELSE {})
       \cup (IF norm_types(f.property_types) # << >> THEN { "property_types" } ELSE {})
       \cup (IF ~f.include_sold THEN { "exclude_sold" } ELSE {})

TypeOf(it) == IF it.type # "" THEN it.type ELSE classify_type(it.text)

Holds(k, it, f) ==
  CASE k = "price_min" -> it.price # NoneInt /\ it.price >= f.price_min
    [] k = "price_max" -> it.price # NoneInt /\ it.price <= f.price_max
    [] k = "bedrooms_min" -> (IF it.bedrooms = NoneInt THEN 0 ELSE it.bedrooms) >= f.bedrooms_min
    [] k = "cities" -> \E i \in 1..Len(f.cities) : InText(f.cities[i], it.text)
    [] k = "property_types" -> TypeOf(it) \in Range(norm_types(f.property_types))
    [] k = "exclude_sold" -> ~InText("vendu", it.text) /\ ~InText("option", it.text)

\* out is the subsequence of items made of the members of S
RECURSIVE Restrict(_, _)
Restrict(items, S) ==
  IF items = << >> THEN << >>
  ELSE (IF items[1] \in S THEN << items[1] >> ELSE << >>) \o Restrict(Tail(items), S)

\* C21 - Filter composition: apply_filters keeps an item iff every
\* configured predicate holds for it, and keeps the input order.
C21_FilterComposition ==
  f_pc = "done" =>
    f_out = Restrict(f_items,
                     { it \in Range(f_items) :
                         \A k \in Configured(f_filters) : Holds(k, it, f_filters) })

\* the example of the claim: price 250000 and 2 bedrooms, kept under
\* { price_max 300000, bedrooms_min 2 }, with a dropped item before it
C21_Witness ==
  /\ f_pc = "done" /\ Len(f_items) = 2 /\ Len(f_out) = 1
  /\ f_out[1] = f_items[2]
  /\ f_out[1].price = 250000 /\ f_out[1].bedrooms = 2
  /\ f_filters.price_max = 300000 /\ f_filters.bedrooms_min = 2

NullPriceFails(it, f) ==
  (it.price = NoneInt /\ (f.price_min # NoneInt \/ f.price_max # NoneInt))
    => it \notin Range(f_out)

NullTypeFails(it, f) ==
  (TypeOf(it) = "" /\ norm_types(f.property_types) # << >>) => it \notin Range(f_out)

\* a null field does not decide when its predicate is not configured
NullFieldNeutral(it, f) ==
  /\ (it.price = NoneInt /\ f.price_min = NoneInt /\ f.price_max = NoneInt)
       => (it \in Range(f_out) <=> Keeps([it EXCEPT !.price = 0], f))
  /\ (it.bedrooms = NoneInt /\ f.bedrooms_min = NoneInt)
       => (it \in Range(f_out) <=> Keeps([it EXCEPT !.bedrooms = 9], f))
  /\ (TypeOf(it) = "" /\ norm_types(f.property_types) = << >>)
       => (it \in Range(f_out) <=> Keeps([it EXCEPT !.type = "maison"], f))

\* C22 (as stated) - Unknown fields fail configured predicates: null price
\* under price_min or price_max, null bedroom count under any configured
\* bedrooms_min, unknown type under property types; a null field never
\* fails a predicate that is not configured.
C22_NullFailsWhenConfigured ==
  (f_pc = "done" /\ f_filters.given) =>
    \A it \in Range(f_items) :
      /\ NullPriceFails(it, f_filters)
      /\ NullTypeFails(it, f_filters)
      /\ NullFieldNeutral(it, f_filters)
      /\ (it.bedrooms = NoneInt /\ f_filters.bedrooms_min # NoneInt)
           => it \notin Range(f_out)

\* C22 (amended) - As above, except that a null bedroom count is counted as
\* 0: it fails bedrooms_min only when the configured minimum is at least 1.
C22_NullBedroomsCountAsZero ==
  (f_pc = "done" /\ f_filters.given) =>
    \A it \in Range(f_items) :
      /\ NullPriceFails(it, f_filters)
      /\ NullTypeFails(it, f_filters)
      /\ NullFieldNeutral(it, f_filters)
      /\ (it.bedrooms = NoneInt /\ f_filters.bedrooms_min # NoneInt)
           => (it \in Range(f_out) => f_filters.bedrooms_min <= 0)
      /\ (it.bedrooms = NoneInt /\ f_filters.bedrooms_min >= 1)
           => it \notin Range(f_out)

C22_Witness ==
  /\ f_pc = "done" /\ f_filters.given /\ f_filters.bedrooms_min = 2
  /\ Len(f_items) = 2 /\ Len(f_out) = 1
  /\ f_items[1].bedrooms = NoneInt /\ f_items[1].price # NoneInt
  /\ f_out[1] = f_items[2]

----------------------------------------------------------------------------
(* Claims about the state store                                            *)

ReachedStore == run.loaded # "none"

DiffOutcomes == { "no_new", "no_email", "notified" }

EarlyStops == { "invalid_target", "fetch_raised", "unloadable", "no_items" }

\* C1 - Seed suppresses notification: a run that reaches the state store
\* for a key without a record ends as a seed, the record it persists has
\* exactly the ids of the incoming items as its seen set, and the run hands
\* nothing to the notifier.
C1_SeedSuppressesNotification ==
  /\ (ReachedStore /\ ~run.hadRec) => (run.calls = 0 /\ run.mailed = << >>)
  /\ (pc = "ended" /\ ReachedStore /\ ~run.hadRec /\ run.outcome # "raised") =>
       /\ run.outcome = "seeded"
       /\ HasRec(disk, run.key)
       /\ SeenOf(disk, run.key) = ids(run.items)

C1_Witness ==
  /\ pc = "ended" /\ run.outcome = "seeded"
  /\ Cardinality(ids(run.items)) >= 2
  /\ SeenOf(disk, run.key) = ids(run.items)

\* C2 (as stated) - a listing that was in the catalog when the alert was
\* seeded is never handed to the notifier by a later run.
C2_SeedCatalogNeverHanded ==
  \A k \in Keys : hist[k].seeded =>
    \A i \in hist[k].seedCatalog : hist[k].handed[i] = 0

\* C2 (amended) - a listing the seed run itself observed is never handed to
\* the notifier while the seeded record persists, unless (Immoweb) its
\* publication date is not older than the record's creation time.
C2_SeedSeenNeverHanded ==
  \A k \in Keys : (hist[k].seeded /\ HasRec(disk, k)) =>
    \A i \in hist[k].seedSeen :
      ~pub_ok(s_site, Item(i), disk.alerts[k].created_at_utc)
        => hist[k].handed[i] = 0

C2_Witness ==
  /\ pc = "ended" /\ run.outcome = "notified"
  /\ \E i \in hist[run.key].seedSeen \cap ids(run.items) :
       hist[run.key].handed[i] = 0

\* a run whose diff was persisted
DiffPersisted ==
  /\ pc = "ended"
  /\ \/ run.outcome \in DiffOutcomes
     \/ run.outcome = "crashed" /\ run.at = "notify"

\* C3 (as stated) - every listing published after the seed and observed by
\* a later run is handed to the notifier in exactly one run.
C3_ExactlyOnce ==
  (DiffPersisted /\ hist[run.key].seeded) =>
    \A i \in ids(run.items) \ hist[run.key].seedCatalog :
      hist[run.key].handed[i] = 1

\* C3 (amended) - while a record persists, a listing is handed to the
\* notifier in at most one run, unless (Immoweb) its publication date is not
\* older than the record's creation time; a run hands its new items over
\* only when it reaches the notification with a non-empty stored address,
\* and every item a completed diff observed is in the persisted seen set.
C3_AtMostOnce ==
  /\ \A k \in Keys : HasRec(disk, k) =>
       \A i \in StoreIds :
         ~pub_ok(s_site, Item(i), disk.alerts[k].created_at_utc)
           => hist[k].handed[i] <= 1
  /\ (pc = "ended" /\ run.outcome = "notified") =>
       (run.mailed = run.new_list /\ run.new_list # << >> /\ run.to_email # "")
  /\ (pc = "ended" /\ run.outcome \in { "no_new", "no_email" }) => run.calls = 0
  /\ (pc = "ended" /\ run.outcome \in DiffOutcomes) =>
       ids(run.items) \subseteq SeenOf(disk, run.key)

C3_Witness ==
  /\ pc = "ended" /\ run.outcome = "no_new"
  /\ \E i \in ids(run.items) : hist[run.key].handed[i] = 1

\* a run that went through the state store to its end
Completed == pc = "ended" /\ run.outcome \in DiffOutcomes \cup { "seeded" }

\* C4 (as stated) - the seen set persisted by a run is a superset of the
\* seen set persisted by the previous run of the same key.
C4_MonotonicSeen ==
  Completed => hist[run.key].seenPrev \subseteq SeenOf(disk, run.key)

\* C4 (amended) - the same, when no load_state between the two runs found
\* the state file unreadable and reset it.
C4_MonotonicSeenNoReset ==
  (Completed /\ ~hist[run.key].resetSince)
    => hist[run.key].seenPrev \subseteq SeenOf(disk, run.key)

C4_Witness ==
  /\ Completed /\ ~hist[run.key].resetSince
  /\ hist[run.key].seenPrev # {}
  /\ hist[run.key].seenPrev # SeenOf(disk, run.key)

\* C5 - the diff returns the incoming items whose id is not in
\* the stored seen set or whose publication date is newer than the record's
\* creation time, and the stored seen set becomes the old one united with
\* the incoming ids.
C5_DiffNewerThan ==
  pc = "notify" =>
    LET old == Range(run.oldRec.seen_codes)
        Expected(it) ==
          \/ it.id \notin old
          \/ it.publication_date.has
               /\ it.publication_date.t > run.oldRec.created_at_utc
    IN /\ run.new_list = SelectSeq(run.items, Expected)
       /\ SeenOf(disk, run.key) = old \cup ids(run.items)

\* a save is under way, or the process died in the middle of one
SaveCut == pc = "save" \/ (pc = "ended" /\ run.outcome = "crashed" /\ run.at = "save")

\* C6 - Crash safety: at whatever point save_state is interrupted, the next
\* load_state returns the complete previous state or the complete new state,
\* and finds nothing to reset.
C6_CrashSafety ==
  SaveCut =>
    LET l == load_state(disk, bak) IN
    /\ disk.kind # "partial"
    /\ ~l.reset
    /\ l.state \in { load_state(run.saveOld, bak).state, run.saveNew }

C6_Witness ==
  /\ pc = "ended" /\ run.outcome = "crashed" /\ run.at = "save"
  /\ tmp = "partial"
  /\ HasRec(disk, run.key)
  /\ run.saveNew # disk

\* C7 - State corruption is recovered: a run that finds a state file it
\* cannot read as a state goes on as if no record existed (it seeds) and the
\* file's content is kept under the .bak name.
C7_CorruptionRecovered ==
  (pc = "ended" /\ run.loaded \in { "partial", "garbage", "nondict" }) =>
    /\ run.outcome = "seeded"
    /\ run.reset
    /\ bak.kind = run.loaded

\* C8 - A run that stops before the diff step (invalid target, fetch
\* raising, list page not loadable, empty crawl) leaves the state file, its
\* temporary file and its backup as they were.
C8_EarlyStopFrame ==
  (pc # "idle" /\ (run.outcome \in EarlyStops \/ run.empty_crawl)) =>
    /\ run.outcome \in EarlyStops
    /\ << disk, tmp, bak >> = startFiles

C8_Witness ==
  /\ pc = "ended" /\ run.outcome = "no_items"
  /\ HasRec(disk, run.key)
  /\ << disk, tmp, bak >> = startFiles

----------------------------------------------------------------------------
(* More claims about the state store                                       *)

\* C23 - In every run the notifier is invoked at most once, and only when
\* the run is not a seed event and its list of new items is not empty.
C23_NotifierOnlyForNewItems ==
  /\ run.calls <= 1
  /\ run.calls = 1 => (run.hadRec /\ run.new_list # << >> /\ run.outcome = "notified")
  /\ run.outcome \in { "seeded", "no_new" } => run.calls = 0

C23_Witness ==
  /\ pc = "ended" /\ run.calls = 1 /\ run.hadRec
  /\ Len(run.new_list) = 1 /\ Len(run.items) = 2

\* the record of the run's key in the state file as the run found it
StoredAtStart == startFiles[1].alerts[run.key]

EmailChanged ==
  /\ Completed
  /\ HasRec(startFiles[1], run.key)
  /\ StoredAtStart.email # run.email

\* C24 - Subscriber email update: after a run that reaches the state store
\* with an email different from the stored one, the persisted record has
\* the run's email, and a notification of that run goes to the run's email.
C24_EmailUpdated ==
  EmailChanged =>
    /\ HasRec(disk, run.key)
    /\ disk.alerts[run.key].email = run.email
    /\ run.calls = 1 => run.to_email = run.email

C24_Witness ==
  /\ EmailChanged /\ StoredAtStart.email = "" /\ run.email = "a@x"
  /\ run.outcome = "notified" /\ run.calls = 1 /\ run.to_email = "a@x"

StrictlyAscending(codes) == \A i \in 1..(Len(codes) - 1) : codes[i] < codes[i + 1]

SortedRecords(f) ==
  f.kind = "json" => \A k \in Keys : StrictlyAscending(f.alerts[k].seen_codes)

\* C25 - In every state written by seed_if_needed or detect_new_items, the
\* seen_codes list of a record is in ascending order and has no duplicate.
C25_SeenCodesSorted ==
  /\ SortedRecords(disk)
  /\ SortedRecords(mem)
  /\ SortedRecords(run.saveNew)

C25_Witness ==
  /\ Completed /\ run.outcome \in DiffOutcomes
  /\ hist[run.key].seenPrev = { 2 }
  /\ disk.alerts[run.key].seen_codes = << 1, 2 >>

----------------------------------------------------------------------------
(* More claims about the cursor engine                                     *)

\* the last answer of the site is in the accumulated result: the hit of
\* page 1, or the hit of the cursor step just made
AnswerAccumulated ==
  /\ c_site = "immokh"
  /\ page_items # << >>
  /\ \/ c_pc \in { "loop", "done" } /\ c_steps = 1
     \/ c_pc = "loop" /\ advanced

\* C26 - An item whose id is not numeric is left out of the cursor
\* computation but is kept in the accumulated result when it carries an id,
\* on the first page and on every later page.
C26_NonNumericRetained ==
  AnswerAccumulated =>
    \A i \in 1..Len(page_items) :
      ~IsNumeric(page_items[i]) => page_items[i] \in Range(all_items)

\* positions of the cards of an answer that have a numeric id strictly below
\* the cursor and not yet seen in this crawl
Advancing(items, cursor, sn) ==
  { i \in 1..Len(items) : items[i] >= 0 /\ items[i] < cursor /\ items[i] \notin sn }

\* C27 - Miss on a non-advancing page: a cursor attempt whose answer has no
\* advancing item leaves the cursor, the seen set and the accumulated list
\* as they were, and the engine goes on with the next attempt of the step
\* (the step ends when that was the last one).
C27_MissLeavesCrawlUnchanged ==
  [][ ( /\ c_site = "immokh"
        /\ c_pc = "attempt"
        /\ c_pc' # "raised"
        /\ Advancing(page_items', cursor_id, seen) = {} )
      => /\ UNCHANGED << cursor_id, seen, all_items >>
         /\ IF psize_ix < Len(PSIZES)
              THEN c_pc' = "attempt" /\ psize_ix' = psize_ix + 1
              ELSE c_pc' = "done" ]_vars

C27_Witness ==
  /\ c_site = "immokh" /\ c_pc = "attempt" /\ psize_ix = 2
  /\ Len(page_items) = 2
  /\ Advancing(page_items, cursor_id, seen) = {}
  /\ page_items[1] \notin seen

NumericIds(items) == { items[i] : i \in { j \in 1..Len(items) : items[j] >= 0 } }

\* C28 - Cursor is the minimum: from the first successful page on, the
\* cursor is the least numeric id accumulated so far; after a successful
\* step it is the least id of the advancing items of that step.
C28_CursorIsMinimum ==
  /\ (c_site = "immokh" /\ NumericIds(all_items) # {})
        => cursor_id = SetMin(NumericIds(all_items))
  /\ (c_site = "immokh" /\ c_pc = "loop" /\ advanced)
        => cursor_id = SetMin({ x \in NumericIds(page_items) : x < prev_cursor })

C28_Witness ==
  /\ c_site = "immokh" /\ c_pc = "loop" /\ advanced /\ c_succ = 1
  /\ all_items = << 3, 2, 1 >>
  /\ cursor_id = 1 /\ prev_cursor = 2

----------------------------------------------------------------------------
(* More claims about the scroll detector                                   *)

\* number of cycles at the end of the log in which nothing grew
RECURSIVE TrailingQuiet(_)
TrailingQuiet(log) ==
  IF log = << >> \/ log[Len(log)] THEN 0
  ELSE 1 + TrailingQuiet(SubSeq(log, 1, Len(log) - 1))

\* C29 - At the end of every cycle the counter k (stable_cycles) is the
\* number of most recent consecutive cycles in which neither the card count
\* nor the scroll height exceeded the last recorded values; a cycle with
\* growth in either signal resets k to 0.
C29_CounterCountsQuietCycles ==
  /\ Len(growth) = cycles
  /\ stable_cycles = TrailingQuiet(growth)

C29_Witness ==
  /\ b_pc = "loop" /\ stable_cycles = 2
  /\ growth = << FALSE, TRUE, FALSE, FALSE >>

----------------------------------------------------------------------------
(* The save and the notifier                                               *)

\* C30 - Save precedes notify: when the notifier is called for an item, the
\* item's id is already in the persisted seen set, so that the item is
\* recorded as seen also when delivery is disabled, not configured or fails.
C30_SavedBeforeNotified ==
  /\ pc = "notify"
       => /\ HasRec(disk, run.key)
          /\ ids(run.new_list) \subseteq SeenOf(disk, run.key)
  /\ (pc = "ended" /\ run.calls = 1)
       => /\ run.delivery \in { "disabled", "raised", "unconfigured", "failed", "sent" }
          /\ HasRec(disk, run.key)
          /\ ids(run.mailed) \subseteq SeenOf(disk, run.key)

C30_Witness ==
  /\ pc = "ended" /\ run.calls = 1 /\ run.delivery = "failed"
  /\ ids(run.mailed) = { 2 }
  /\ SeenOf(disk, run.key) = { 1, 2 }
  /\ hist[run.key].seenPrev = { 1 }

----------------------------------------------------------------------------
(* Listings that come back several times in one crawl                      *)

\* no id at two positions of a list of items
DistinctIds(items) ==
  \A i \in 1..Len(items), j \in 1..Len(items) : i # j => items[i].id # items[j].id

\* C31 - The list of new items handed to the notifier in one run contains
\* each listing id at most once, also when the same listing shows on several
\* crawled pages of that run.
C31_NewItemsDistinct ==
  (pc = "ended" /\ run.calls = 1) => DistinctIds(run.mailed)

\* C32 - The item list returned by the cursor engine has no two items with
\* the same id, whatever the server answers (overlapping or repeated pages
\* included).
C32_CursorItemsDistinct ==
  c_site = "immokh" =>
    \A i \in 1..Len(all_items), j \in 1..Len(all_items) :
      i # j => all_items[i] # all_items[j]

C32_Witness ==
  /\ c_site = "immokh" /\ c_pc = "loop" /\ advanced
  /\ page_items = << 1, 2 >>
  /\ all_items = << 2, 1 >>

----------------------------------------------------------------------------
(* SpecTargets: sequential runs of several alerts on one state file        *)

\* Two alerts of one site are run in any order, over and over, against a
\* catalog that holds one listing from the start; the clock moves between
\* runs and the state file may be damaged between runs.
InitTargets ==
  /\ \E site \in Sites :
       /\ s_site = site
       /\ pubOf = [i \in StoreIds |-> NoDate]
  /\ targets = Keys
  /\ now = 0
  /\ catalog = { 1 }
  /\ disk = Absent
  /\ tmp = "absent"
  /\ bak = Absent
  /\ pc = "idle"
  /\ run = NoRun
  /\ mem = EmptyState
  /\ startFiles = NoFiles
  /\ hist = [k \in Keys |-> NoHist]
  /\ InitCrawlVars("immokh", 0)
  /\ InitScrollVars(0)
  /\ InitBatchVars(FALSE)
  /\ InitCanonVars("immokh", EmptyUrl, EmptyUrl)
  /\ InitFilterVars(<< >>, NoFilters)
  /\ InitJournalVars

NextTargets ==
  \/ Tick /\ UNCHANGED outsideStore
  \/ Corrupt /\ UNCHANGED outsideStore
  \/ RunStart /\ UNCHANGED outsideStore
  \/ LoadState /\ UNCHANGED outsideStore
  \/ SeedIfNeeded /\ UNCHANGED outsideStore
  \/ DetectNewItems /\ UNCHANGED outsideStore
  \/ SaveStep /\ UNCHANGED outsideStore
  \/ Notify /\ UNCHANGED outsideStore
  \/ Crash /\ UNCHANGED outsideStore
  \/ Finish /\ UNCHANGED outsideStore

SpecTargets == InitTargets /\ [][NextTargets]_vars

\* the state file the run in progress found
FileAtStart == startFiles[1]

\* C33 - A run for identity key K leaves the record of every other key
\* stored in the state file as it was (created_at_utc, seen_codes,
\* last_run_utc and email), for any sequence of sequential runs over several
\* targets.
C33_OtherRecordsUntouched ==
  (pc # "idle" /\ FileAtStart.kind = "json") =>
    /\ disk.kind = "json"
    /\ \A k \in Keys \ { run.key } : disk.alerts[k] = FileAtStart.alerts[k]

C33_Witness ==
  /\ Completed /\ run.key = "k1" /\ run.outcome = "no_new"
  /\ HasRec(FileAtStart, "k2")
  /\ disk.alerts["k2"] = FileAtStart.alerts["k2"]
  /\ disk.alerts["k2"].email # disk.alerts["k1"].email
  /\ disk.alerts["k2"].last_run_utc = 0
  /\ disk.alerts["k1"].last_run_utc = 1

\* C34 - Once a record has been seeded, no later run of its identity key
\* changes its created_at_utc; only seen_codes, last_run_utc and email are
\* updated.
C34_CreatedAtKept ==
  (pc # "idle" /\ HasRec(FileAtStart, run.key)) =>
    /\ HasRec(disk, run.key)
    /\ disk.alerts[run.key].created_at_utc = FileAtStart.alerts[run.key].created_at_utc

C34_Witness ==
  /\ Completed /\ run.outcome = "notified"
  /\ FileAtStart.alerts[run.key] =
       [present |-> TRUE, created_at_utc |-> 0, seen_codes |-> << >>,
        last_run_utc |-> 0, email |-> ""]
  /\ disk.alerts[run.key] =
       [present |-> TRUE, created_at_utc |-> 0, seen_codes |-> << 1 >>,
        last_run_utc |-> 1, email |-> "a@x"]

\* the run that ends is the first one of its key to come through since a
\* reset of the state file (the run that made the reset included)
FirstRunSinceReset == Completed /\ hist[run.key].resetSince

\* a seed event: the record is created from the crawl, nobody is notified
SeedEvent ==
  /\ run.outcome = "seeded"
  /\ run.calls = 0
  /\ HasRec(disk, run.key)
  /\ SeenOf(disk, run.key) = ids(run.items)

OtherKeysStored == { k \in Keys \ { run.key } : HasRec(disk, k) }

\* C35 as stated - After a read failure has reset the state file, the first
\* following run of every target is a seed event without notification, and
\* the state file written by that run holds the record of that target alone.
C35_ResetThenSeedAlone ==
  FirstRunSinceReset => (SeedEvent /\ OtherKeysStored = {})

\* C35 - After a read failure has reset the state file, the first following
\* run of every target is a seed event without notification; the file
\* written by the run that made the reset holds the record of its target
\* alone, and a later run adds its record to those seeded since the reset.
C35_ResetThenSeed ==
  FirstRunSinceReset =>
    /\ SeedEvent
    /\ run.reset => OtherKeysStored = {}
    /\ \A k \in OtherKeysStored : ~hist[k].resetSince

C35_Witness ==
  /\ FirstRunSinceReset /\ SeedEvent
  /\ run.key = "k2" /\ ~run.reset
  /\ hist["k2"].seenPrev = { 1 }
  /\ bak.kind = "garbage"
  /\ OtherKeysStored = { "k1" }

----------------------------------------------------------------------------
(* SpecJournal: the journal of alert events and its two replays            *)

\* A row of the journal is {"action": ..., "alert": {...}}, or, in the old
\* format, the alert itself without "action" and "alert" (action "legacy"
\* here). "other" is any action text that is not add, update or delete. Of
\* the alert the row carries its site, URL, e-mail, filters ("none" when the
\* key is absent, else the JSON text of the filter dict, sort_keys=True),
\* pages and use_browser ("none" when absent, else "true" or "false"). An
\* absent URL or e-mail reads as the empty text, as a.get(..., "") does. The
\* state dict of a replay is the sequence of its entries in insertion order;
\* a key "site|url|filters" is the tuple of its three parts.

\* the value of pages: absent (or null), a number, or a text int() rejects
NoPages == 0
BadPages == -1

\* --default-pages of the batch, scraper_defaults.pages of the UI
default_pages == 2
DEFAULT_PAGES == 20

Row(action, site, url, email, filters, pages, use_browser) ==
  [action |-> action, site |-> site, url |-> url, email |-> email,
   filters |-> filters, pages |-> pages, use_browser |-> use_browser]

\* an alert of a replay or of the session list
Alert(site, url, email, filters, pages, use_browser) ==
  [site |-> site, url |-> url, email |-> email, filters |-> filters,
   pages |-> pages, use_browser |-> use_browser]

\* the URLs the rows carry, per site
JournalUrls(site) ==
  CASE site = "immoweb" ->
         { EmptyUrl }
         \cup { [kind |-> "url", scheme |-> "https", host |-> IMMOWEB_HOST,
                 path |-> "/s", query |-> q] :
                  q \in { << << << "orderBy" >>, << "cheapest" >> >> >>,
                          << << << "orderBy" >>, << "newest" >> >> >>,
                          << << << "a" >>, << "1" >> >>,
                             << << "orderBy" >>, << "newest" >> >> >> } }
    [] site = "marjorietome" ->
         { EmptyUrl }
         \cup { [kind |-> "url", scheme |-> "https", host |-> "www.immotoma.be",
                 path |-> "/s", query |-> q] :
                  q \in { << >> } }
    [] OTHER -> { EmptyUrl, LIST_URL }

\* the filters the rows of a site carry
RowFilters(site) == IF site = "immokh" THEN { "none", "f1" } ELSE { "none" }

\* two Immoweb searches that differ in their sort order
IwNewest == [kind |-> "url", scheme |-> "https", host |-> IMMOWEB_HOST,
             path |-> "/s", query |-> << << << "orderBy" >>, << "newest" >> >> >>]
IwCheapest == [kind |-> "url", scheme |-> "https", host |-> IMMOWEB_HOST,
               path |-> "/s", query |-> << << << "orderBy" >>, << "cheapest" >> >> >>]
MtSearch == [kind |-> "url", scheme |-> "https", host |-> "www.immotoma.be",
             path |-> "/s", query |-> << >>]

\* the rows another session or a commit made by hand writes: add rows with
\* and without e-mail, update rows, delete rows (the e-mail of a delete row
\* is not read), one row per site with another action, a row of the old
\* format and a row whose pages is no number
Rows ==
  UNION { { Row("add", site, u, e, f, NoPages, "none") :
              u \in JournalUrls(site), e \in { "", "a@x" }, f \in RowFilters(site) }
          \cup { Row("update", site, u, "a@x", f, NoPages, "none") :
                   u \in JournalUrls(site), f \in RowFilters(site) }
          \cup { Row("delete", site, u, "", f, NoPages, "none") :
                   u \in JournalUrls(site), f \in RowFilters(site) }
          \cup { Row("other", site, LIST_URL, "a@x", "none", NoPages, "none") } :
          site \in Sites }
  \cup { Row("legacy", "immoweb", IwCheapest, "a@x", "none", NoPages, "none"),
         Row("add", "marjorietome", MtSearch, "a@x", "none", BadPages, "none") }

\* the (site, URL, filters) the rows of a replayed file name
ReplayTargets ==
  { << "immoweb", u, "none" >> : u \in { EmptyUrl, IwNewest, IwCheapest } }
  \cup { << "marjorietome", MtSearch, "none" >> }
  \cup { << "immokh", u, f >> : u \in { EmptyUrl, LIST_URL }, f \in { "none", "f1" } }

\* the rows of a replayed file: add rows of two subscribers, add rows without
\* e-mail, update rows with a page budget (and use_browser, Immo-KH), rows
\* whose pages is no number (with and without the e-mail and URL that make
\* the row count), delete rows, a row with another action and rows of the
\* old format
ReplayRows ==
  { Row("add", t[1], t[2], e, t[3], NoPages, "none") :
      t \in ReplayTargets, e \in { "a@x", "b@x" } }
  \cup { Row("add", "immoweb", IwNewest, "", "none", NoPages, "none"),
         Row("add", "immokh", LIST_URL, "", "f1", 3, "none") }
  \cup { Row("update", t[1], t[2], "a@x", t[3], 3,
             IF t[1] = "immokh" THEN "false" ELSE "none") : t \in ReplayTargets }
  \cup { Row("add", "immoweb", IwNewest, "a@x", "none", BadPages, "none"),
         Row("add", "immoweb", EmptyUrl, "a@x", "none", BadPages, "none"),
         Row("update", "marjorietome", MtSearch, "", "none", BadPages, "none") }
  \cup { Row("delete", t[1], t[2], "", t[3], NoPages, "none") : t \in ReplayTargets }
  \cup { Row("other", "immokh", LIST_URL, "a@x", "none", NoPages, "none") }
  \cup { Row("legacy", "immoweb", IwCheapest, "a@x", "none", NoPages, "none"),
         Row("legacy", "immokh", EmptyUrl, "b@x", "f1", 3, "true"),
         Row("legacy", "immoweb", EmptyUrl, "a@x", "none", NoPages, "none"),
         Row("legacy", "immoweb", IwNewest, "", "none", BadPages, "none"),
         Row("legacy", "marjorietome", MtSearch, "a@x", "none", BadPages, "none") }

\* the files of up to MaxReplay rows
ReplayJournals == UNION { [1..n -> ReplayRows] : n \in 0..MaxReplay }

\* state[key] = item
Put(state, key, item) ==
  IF \E i \in 1..Len(state) : state[i].key = key
  THEN [i \in 1..Len(state) |->
          IF state[i].key = key THEN [key |-> key, alert |-> item] ELSE state[i]]
  ELSE Append(state, [key |-> key, alert |-> item])

\* a pop that removes nothing
Pop_keep(state, key) == state

\* state.pop(key, None)
Pop(state, key) == SelectSeq(state, LAMBDA e : e.key # key)

\* ---- batch_alertme.py

\* _fallback_canonicalize: the page parameter removed, first value of each
\* name; the URL itself when it is empty or cannot be parsed
fallback_canonicalize(u) ==
  IF u = EmptyUrl \/ u.kind = "bad" THEN u
  ELSE [u EXCEPT !.query =
          urlencode(SelectSeq(parse_qs_first(u.query),
                              LAMBDA pair : pair[1] # << "page" >>))]

\* canonicalize(site, url): the URL of Immo-KH goes through
\* canonicalize_list_url first; then the first function of alertme_<site>
\* whose name starts with "canonicalize" and contains "url" is applied
\* (alertme_immoweb has none), and the fallback when there is none or when it
\* raises
canonicalize(site, url) ==
  LET u == IF site = "immokh" THEN canonicalize_list_url(url) ELSE url
  IN CASE site = "immokh" -> canonicalize_list_url(u)
       [] site = "marjorietome" ->
            IF canonicalize_marjorietome_url(u) = ValueError
            THEN fallback_canonicalize(u)
            ELSE canonicalize_marjorietome_url(u)
       [] OTHER -> fallback_canonicalize(u)

\* the key the batch reducer gives a row, EmptyUrl as URL when it has none:
\* a row of the old format is keyed by site and URL alone
BatchKey(row) ==
  IF row.action = "legacy"
  THEN << row.site, canonicalize(row.site, row.url), "none" >>
  ELSE << row.site,
          IF row.url # EmptyUrl \/ row.site = "immokh"
          THEN canonicalize(row.site, row.url) ELSE EmptyUrl,
          row.filters >>

\* int(alert.get("pages", default_pages) or default_pages), for a pages that
\* int() accepts
int_pages(pages, default) == IF pages = NoPages THEN default ELSE pages

\* _reduce_events_to_items: the state dict, or raised when int() meets a
\* pages that is no number
RECURSIVE reduce_events_to_items(_)
reduce_events_to_items(lines) ==
  IF lines = << >> THEN [raised |-> FALSE, state |-> << >>]
  ELSE
    LET prev == reduce_events_to_items(SubSeq(lines, 1, Len(lines) - 1))
        state == prev.state
        row == lines[Len(lines)]
        key == BatchKey(row)
        key_url == key[2]
        legacy == Alert(row.site, key_url, row.email, "none",
                        int_pages(row.pages, default_pages), "none")
        item == Alert(row.site, key_url, row.email, row.filters,
                      int_pages(row.pages, default_pages), row.use_browser)
    IN IF prev.raised THEN prev
       ELSE CASE row.action = "legacy" ->
                   IF row.email = "" THEN prev
                   ELSE IF row.pages = BadPages THEN [prev EXCEPT !.raised = TRUE]
                   ELSE [prev EXCEPT !.state = Put(state, key, legacy)]
              [] row.action \in { "add", "update" } ->
                   IF key_url = EmptyUrl \/ row.email = "" THEN prev
                   ELSE IF row.pages = BadPages THEN [prev EXCEPT !.raised = TRUE]
                   ELSE [prev EXCEPT !.state = Put(state, key, item)]
              [] row.action = "delete" ->
                   IF key_url = EmptyUrl THEN prev
                   ELSE [prev EXCEPT !.state = Pop(state, key)]
              [] OTHER -> prev

\* read_jsonl_effective_items: the alerts of the replay that are complete,
\* or raised when the replay raised
read_jsonl_effective_items(lines) ==
  LET reduced == reduce_events_to_items(lines)
      complete == SelectSeq(reduced.state, LAMBDA e :
                    /\ e.alert.site # ""
                    /\ (e.alert.url # EmptyUrl \/ e.alert.site = "immokh")
                    /\ e.alert.email # "")
  IN [raised |-> reduced.raised,
      items |-> IF reduced.raised THEN << >>
                ELSE [i \in 1..Len(complete) |->
                        IF complete[i].alert.site = "immokh"
                           /\ complete[i].alert.url = EmptyUrl
                        THEN [complete[i].alert EXCEPT
                                !.url = canonicalize_list_url(EmptyUrl)]
                        ELSE complete[i].alert]]

\* ---- app.py

\* canonicalize_by_site: canonicalize_immoweb_url (the text of
\* normalize_immoweb_url), the canonicalize_marjorietome_url of the UI (paged
\* removed, no host check) and canonicalize_generic_url for any other site
canonicalize_by_site(site, u) ==
  CASE site = "immoweb" -> normalize_immoweb_url(u)
    [] site = "marjorietome" ->
         IF u.kind = "bad" THEN ValueError
         ELSE [u EXCEPT !.query =
                 urlencode(SelectSeq(parse_qs_first(u.query),
                                     LAMBDA pair : pair[1] # << "paged" >>))]
    [] OTHER ->
         IF u.kind = "bad" THEN ValueError
         ELSE [u EXCEPT !.scheme = IF u.scheme = "" THEN "https" ELSE u.scheme,
                        !.query =
                 urlencode(SelectSeq(parse_qs_first(u.query),
                                     LAMBDA pair : pair[1] \notin { << "page" >>, << "paged" >> }))]

\* _reduce_events_to_state: the state dict, or raised when int(a["pages"])
\* meets a pages that is no number. A row of the old format keeps its
\* filters when its site is Immo-KH.
RECURSIVE reduce_events_to_state(_)
reduce_events_to_state(lines) ==
  IF lines = << >> THEN [raised |-> FALSE, state |-> << >>]
  ELSE
    LET prev == reduce_events_to_state(SubSeq(lines, 1, Len(lines) - 1))
        state == prev.state
        row == lines[Len(lines)]
        url_in == IF row.site = "immokh" /\ row.url = EmptyUrl THEN LIST_URL ELSE row.url
        tried_canon == canonicalize_by_site(row.site, url_in)
        canon == IF tried_canon = ValueError THEN url_in ELSE tried_canon
        filters == IF row.action = "legacy" /\ row.site # "immokh" THEN "none"
                   ELSE row.filters
        rec == Alert(row.site, canon, row.email, filters, row.pages, row.use_browser)
    IN IF prev.raised THEN prev
       ELSE CASE row.action \in { "legacy", "add", "update" } ->
                   IF row.pages = BadPages THEN [prev EXCEPT !.raised = TRUE]
                   ELSE [prev EXCEPT
                           !.state = Put(state, << row.site, canon, filters >>, rec)]
              [] row.action = "delete" ->
                   [prev EXCEPT !.state =
                      Pop(state, << row.site,
                                    IF url_in = EmptyUrl THEN url_in ELSE canon,
                                    row.filters >>)]
              [] OTHER -> prev

\* load_alerts for the file as it is: with the GitHub storage a request or a
\* replay that raises gives [] after st.error; the replay of the local file
\* is not guarded
load_alerts(lines, got) ==
  LET reduced == reduce_events_to_state(lines)
  IN IF got /\ ~reduced.raised
     THEN [i \in 1..Len(reduced.state) |-> reduced.state[i].alert]
     ELSE << >>

\* ---- the steps

\* alerts.jsonl is written outside the session: a row is appended to the
\* local file, or pushed to the repository; the PUT of gh_append_line of
\* another session appends the row, or, when its first GET found no file,
\* replaces the file by the row
JournalWrite ==
  /\ written + (IF ui_req.pc \in { "idle", "returned" } THEN 0 ELSE 1) < MaxEvents
  /\ \E row \in Rows, replaces \in IF storage = "github" THEN BOOLEAN ELSE { FALSE } :
       journal' = IF replaces THEN << row >> ELSE Append(journal, row)
  /\ written' = written + 1
  /\ UNCHANGED << storage, ui_open, ui_alerts, ui_req, worktree, effective, read_pc,
                  last_ui >>

\* append_event is called: the session is before the first request of
\* gh_append_line (GH_TOKEN set) or before the append to the local file.
\* card is the card a delete removes once the call is over.
append_event(op, row, before, after, card) ==
  [pc |-> "call", op |-> op, card |-> card, absent |-> FALSE, seen |-> << >>,
   at |-> 0, row |-> row, before |-> before, after |-> after]

\* whether a request, or the append to the local file, may fail within the
\* bounds
Answers == IF last_ui.lost < MaxLost THEN { "ok", "raise" } ELSE { "ok" }

\* the history of the submission that ends
Submitted(at) ==
  [op |-> ui_req.op, at |-> at,
   lost |-> IF at >= 0 THEN last_ui.lost ELSE last_ui.lost + 1,
   before |-> ui_req.before, after |-> ui_req.after]

\* append_event returns: with the answer of the PUT, with True after the
\* local append or, when a request raised, after st.error with None, which
\* no caller tests; len is the length of the journal. After it the add forms
\* and the inline edit change nothing more; the delete button has its card
\* to remove.
Returns(sent, len) ==
  /\ ui_alerts' = ui_alerts
  /\ IF ui_req.op = "delete"
     THEN /\ ui_req' = [ui_req EXCEPT !.pc = "returned", !.seen = << >>,
                                      !.at = IF sent THEN len ELSE -1]
          /\ last_ui' = last_ui
     ELSE /\ ui_req' = NoReq
          /\ last_ui' = Submitted(IF sent THEN len ELSE -1)

\* append_event without GH_TOKEN: os.makedirs and the append of the line to
\* the local file. They are outside any try of append_event: an OSError
\* leaves append_event; the add forms and the inline edit catch it (st.error)
\* with the session list already changed, the delete button does not, so
\* that its card stays and st.rerun is not reached
LocalAppend ==
  /\ storage = "local"
  /\ ui_req.pc = "call"
  /\ \E answer \in Answers :
       IF answer = "raise"
       THEN /\ ui_req' = NoReq
            /\ ui_alerts' = ui_alerts
            /\ last_ui' = Submitted(-1)
            /\ UNCHANGED << journal, written >>
       ELSE /\ journal' = Append(journal, ui_req.row)
            /\ written' = written + 1
            /\ Returns(TRUE, Len(journal) + 1)
  /\ UNCHANGED << storage, ui_open, worktree, effective, read_pc >>

\* gh_append_line, current, sha = gh_get_file(): the file is not there (404),
\* or its content and sha are kept for the PUT, or the request raises
GhGet ==
  /\ storage = "github"
  /\ ui_req.pc = "call"
  /\ \E answer \in Answers, status \in IF journal = << >> THEN { 200, 404 } ELSE { 200 } :
       IF answer = "raise"
       THEN Returns(FALSE, 0)
       ELSE /\ ui_req' = IF status = 404
                         THEN [ui_req EXCEPT !.pc = "get_sha", !.absent = TRUE]
                         ELSE [ui_req EXCEPT !.pc = "put", !.seen = journal]
            /\ UNCHANGED << ui_alerts, last_ui >>
  /\ UNCHANGED << storage, journal, ui_open, worktree, effective, read_pc, written >>

\* gh_put_file, _, sha = gh_get_file(), reached when the first GET found no
\* file: the sha of the file as it is now, if there is one
GhGetSha ==
  /\ ui_req.pc = "get_sha"
  /\ \E answer \in Answers :
       IF answer = "raise"
       THEN Returns(FALSE, 0)
       ELSE /\ ui_req' = [ui_req EXCEPT !.pc = "put", !.seen = journal]
            /\ UNCHANGED << ui_alerts, last_ui >>
  /\ UNCHANGED << storage, journal, ui_open, worktree, effective, read_pc, written >>

\* requests.put of gh_put_file (the file becomes the new line alone) or of
\* gh_append_line (the file becomes the content of the first GET and the new
\* line): refused when the file is no longer the one whose sha was read
GhPut ==
  /\ ui_req.pc = "put"
  /\ \E answer \in Answers :
       LET sent == answer = "ok" /\ journal = ui_req.seen
           text == IF ui_req.absent THEN << ui_req.row >>
                   ELSE Append(ui_req.seen, ui_req.row)
       IN /\ journal' = IF sent THEN text ELSE journal
          /\ written' = IF sent THEN written + 1 ELSE written
          /\ Returns(sent, Len(text))
  /\ UNCHANGED << storage, ui_open, worktree, effective, read_pc >>

\* render_card after append_event("delete", ...) has returned: the card is
\* removed from the session list, whatever it returned, and st.rerun is
\* called
UiDeleteCard ==
  /\ ui_req.pc = "returned"
  /\ ui_req' = NoReq
  /\ ui_alerts' = [j \in 1..(Len(ui_alerts) - 1) |->
                     IF j < ui_req.card THEN ui_alerts[j] ELSE ui_alerts[j + 1]]
  /\ last_ui' = Submitted(ui_req.at)
  /\ UNCHANGED << storage, journal, ui_open, worktree, effective, read_pc, written >>

\* st.session_state.alerts = load_alerts(), once per session. With the
\* local file a replay that raises leaves the script before the assignment:
\* the session has no list and the next script run loads again.
UiLoad ==
  /\ ~ui_open
  /\ \E got \in IF storage = "github" THEN BOOLEAN ELSE { TRUE } :
       IF storage = "local" /\ reduce_events_to_state(journal).raised
       THEN UNCHANGED << ui_open, ui_alerts >>
       ELSE /\ ui_open' = TRUE
            /\ ui_alerts' = load_alerts(journal, got)
  /\ UNCHANGED << storage, journal, ui_req, worktree, effective, read_pc, written,
                  last_ui >>

\* the add form of a site submitted with a valid e-mail (and a URL, which
\* Immo-KH can do without), the page budget left at its default: the alert
\* replaces the one of the session with the same site, URL (and filters,
\* Immo-KH) or is appended to the session list, then append_event is called
\* with an update or add row
UiAdd ==
  /\ ui_open
  /\ ui_req.pc = "idle"
  /\ written < MaxEvents
  /\ \E site \in Sites : \E url \in JournalUrls(site),
        filters \in IF site = "immokh" THEN { "f1", "f2" } ELSE { "none" } :
       LET canon == IF site = "immokh" /\ url = EmptyUrl THEN LIST_URL
                    ELSE canonicalize_by_site(site, url)
           rec == Alert(site, canon, "a@x", filters, DEFAULT_PAGES,
                        IF site = "immokh" THEN "true" ELSE "none")
           same == { i \in 1..Len(ui_alerts) :
                       /\ ui_alerts[i].site = site
                       /\ ui_alerts[i].url = canon
                       /\ site = "immokh" => ui_alerts[i].filters = filters }
           exists == IF same = {} THEN 0 ELSE SetMin(same)
       IN /\ site = "immokh" \/ url # EmptyUrl
          /\ canon # ValueError
          /\ ui_alerts' = IF exists # 0 THEN [ui_alerts EXCEPT ![exists] = rec]
                          ELSE Append(ui_alerts, rec)
          /\ ui_req' = append_event("add",
                Row(IF exists # 0 THEN "update" ELSE "add", site, canon, rec.email,
                    filters, rec.pages, rec.use_browser),
                IF exists # 0 THEN ui_alerts[exists] ELSE rec, rec, 0)
  /\ UNCHANGED << storage, journal, ui_open, worktree, effective, read_pc, written,
                  last_ui >>

\* render_card, the delete button of card i: append_event is called with the
\* delete row; the card leaves the session list in UiDeleteCard
UiDelete ==
  /\ ui_open
  /\ ui_req.pc = "idle"
  /\ written < MaxEvents
  /\ \E i \in 1..Len(ui_alerts) :
       LET a == ui_alerts[i]
           payload == Row("delete", a.site, a.url, "",
                          IF a.site = "immokh" THEN a.filters ELSE "none",
                          NoPages, "none")
       IN ui_req' = append_event("delete", payload, a, a, i)
  /\ UNCHANGED << storage, journal, ui_open, ui_alerts, worktree, effective, read_pc,
                  written, last_ui >>

\* render_card, the inline edit of card i saved with a valid e-mail and a
\* URL of the site, the page budget and the browser choice left as the form
\* shows them: the card is replaced in the session list, then append_event
\* is called with the update row
UiEdit ==
  /\ ui_open
  /\ ui_req.pc = "idle"
  /\ written < MaxEvents
  /\ \E i \in 1..Len(ui_alerts) :
       LET a == ui_alerts[i]
       IN \E new_url \in JournalUrls(a.site),
             new_filters \in IF a.site = "immokh" THEN { "f1", "f2" } ELSE { "none" } :
            LET canon2 == IF a.site = "immokh" /\ new_url = EmptyUrl THEN LIST_URL
                          ELSE canonicalize_by_site(a.site, new_url)
                edited == Alert(a.site, canon2, "a@x", new_filters,
                                int_pages(a.pages, DEFAULT_PAGES),
                                IF a.site # "immokh" THEN "none"
                                ELSE IF a.use_browser = "none" THEN "true"
                                ELSE a.use_browser)
            IN /\ a.site = "immokh" \/ Contains(SiteHost(a.site), new_url.host)
               /\ canon2 # ValueError
               /\ ui_alerts' = [ui_alerts EXCEPT ![i] = edited]
               /\ ui_req' = append_event("edit",
                     Row("update", edited.site, edited.url, edited.email,
                         edited.filters, edited.pages, edited.use_browser),
                     a, edited, 0)
  /\ UNCHANGED << storage, journal, ui_open, worktree, effective, read_pc, written,
                  last_ui >>

\* git fetch and git pull --ff-only bring alerts.jsonl of the working tree
\* up to the repository, or one of them fails ("On continue avec l'etat
\* local") and the file stays as the last pull left it; a local file is the
\* file the UI appends to
git_pull_repo(pulled) ==
  IF storage = "local" \/ pulled THEN journal ELSE worktree

\* main of the batch: git_pull_repo, then the file is read; a replay that
\* raises ends the batch before any alert is run
BatchRead ==
  /\ \E pulled \in BOOLEAN :
       /\ worktree' = git_pull_repo(pulled)
       /\ LET alerts == read_jsonl_effective_items(worktree')
          IN /\ effective' = alerts.items
             /\ read_pc' = IF alerts.raised THEN "raised" ELSE "done"
  /\ UNCHANGED << storage, journal, ui_open, ui_alerts, ui_req, written, last_ui >>

NextJournal ==
  \/ JournalWrite /\ UNCHANGED outsideJournal
  \/ UiLoad /\ UNCHANGED outsideJournal
  \/ LocalAppend /\ UNCHANGED outsideJournal
  \/ GhGet /\ UNCHANGED outsideJournal
  \/ GhGetSha /\ UNCHANGED outsideJournal
  \/ GhPut /\ UNCHANGED outsideJournal
  \/ UiDeleteCard /\ UNCHANGED outsideJournal
  \/ UiAdd /\ UNCHANGED outsideJournal
  \/ UiDelete /\ UNCHANGED outsideJournal
  \/ UiEdit /\ UNCHANGED outsideJournal
  \/ BatchRead /\ UNCHANGED outsideJournal

\* the other variable groups, at rest
InitOutsideJournal ==
  /\ InitCrawlVars("immokh", 0)
  /\ InitStoreVars("immokh", {})
  /\ InitScrollVars(0)
  /\ InitBatchVars(FALSE)
  /\ InitCanonVars("immokh", EmptyUrl, EmptyUrl)
  /\ InitFilterVars(<< >>, NoFilters)

\* an empty journal, kept at the repository or in a local file
InitJournal ==
  /\ \E store \in { "github", "local" } : InitJournalWith(store, << >>)
  /\ InitOutsideJournal

SpecJournal == InitJournal /\ [][NextJournal]_vars

----------------------------------------------------------------------------
(* SpecReplay: the batch reads a journal of up to MaxReplay rows           *)

InitReplay ==
  /\ \E lines \in ReplayJournals : InitJournalWith("local", lines)
  /\ InitOutsideJournal

NextReplay == BatchRead /\ UNCHANGED outsideJournal

SpecReplay == InitReplay /\ [][NextReplay]_vars

----------------------------------------------------------------------------
(* The replay of the journal by the batch                                  *)

\* the alert a writing row stands for: a row of the old format carries no
\* filters and no browser choice, an absent pages is the default
AlertOf(row) ==
  Alert(row.site, BatchKey(row)[2], row.email,
        IF row.action = "legacy" THEN "none" ELSE row.filters,
        IF row.pages = NoPages THEN default_pages ELSE row.pages,
        IF row.action = "legacy" THEN "none" ELSE row.use_browser)

\* a delete row that names a key
Removes(row) ==
  row.action = "delete" /\ (row.url # EmptyUrl \/ row.site = "immokh")

\* an add or update row with an e-mail and a URL
WritesAsStated(row) ==
  row.action \in { "add", "update" } /\ row.email # "" /\ row.url # EmptyUrl

\* an add or update row, or a row of the old format, with an e-mail and a
\* URL, the URL being dispensable for Immo-KH
Writes(row) ==
  /\ row.action \in { "add", "update", "legacy" }
  /\ row.email # ""
  /\ (row.url # EmptyUrl \/ row.site = "immokh")

\* a row whose pages the replay converts: a writing row, or a row of the old
\* format with an e-mail
ReadsPages(row) ==
  Writes(row) \/ (row.action = "legacy" /\ row.email # "")

\* per key, the alert of the last writing row when no removing row of that
\* key follows it
LastWritten(lines, W(_)) ==
  { AlertOf(lines[i]) :
      i \in { n \in 1..Len(lines) :
                /\ W(lines[n])
                /\ \A m \in (n + 1)..Len(lines) :
                     BatchKey(lines[m]) = BatchKey(lines[n]) =>
                       ~(W(lines[m]) \/ Removes(lines[m])) } }

\* the rows are add, update and delete events or rows with another action
Events(lines) == \A n \in 1..Len(lines) : lines[n].action # "legacy"

\* the batch has read the file, and the file holds the rows of the journal
\* as it is now
BatchUpToDate == read_pc = "done" /\ worktree = journal

\* the last row of the journal is the row the UI wrote last, a row of the
\* given action for the given alert
LastRowIs(action, alert) ==
  /\ last_ui.at = Len(journal)
  /\ Len(journal) > 0
  /\ journal[Len(journal)].action = action
  /\ journal[Len(journal)].site = alert.site
  /\ journal[Len(journal)].url = alert.url
  /\ journal[Len(journal)].filters =
       (IF alert.site = "immokh" THEN alert.filters ELSE "none")

\* C36 as stated - For a file of add, update and delete events (and rows
\* with another action) the batch replays, per key, the alert of the last add
\* or update row of that key that no delete row follows, where rows with
\* another action and add / update rows without e-mail or without URL change
\* nothing.
C36_ReplayAsStated ==
  (read_pc # "none" /\ Events(worktree)) =>
    /\ read_pc = "done"
    /\ Range(effective) = LastWritten(worktree, WritesAsStated)
    /\ Len(effective) = Cardinality(Range(effective))

\* C36 - The batch replays, per key, the alert of the last writing row of
\* that key that no delete row follows. The writing rows are the add and
\* update rows and the rows of the old format (keyed without filters) that
\* have an e-mail and a URL, the URL being dispensable for Immo-KH, where a
\* row without URL stands for the default list URL; other rows change
\* nothing. The replay raises, and no alert is run, exactly when the pages of
\* a writing row, or of a row of the old format with an e-mail, is no number.
C36_Replay ==
  read_pc # "none" =>
    /\ read_pc = "raised" <=>
         \E n \in 1..Len(worktree) :
           ReadsPages(worktree[n]) /\ worktree[n].pages = BadPages
    /\ read_pc = "done" =>
         /\ Range(effective) = LastWritten(worktree, Writes)
         /\ Len(effective) = Cardinality(Range(effective))

\* an alert added, deleted, then added again for another subscriber with a
\* page budget of its own: the replay holds the second one alone
C36_Witness ==
  /\ read_pc = "done" /\ Len(worktree) = 3
  /\ worktree[1] = Row("add", "immokh", EmptyUrl, "b@x", "f1", NoPages, "none")
  /\ worktree[2] = Row("delete", "immokh", LIST_URL, "", "f1", NoPages, "none")
  /\ worktree[3] = Row("update", "immokh", EmptyUrl, "a@x", "f1", 3, "false")
  /\ effective = << Alert("immokh", LIST_URL, "a@x", "f1", 3, "false") >>

----------------------------------------------------------------------------
(* The alerts of one batch and the records of the state store              *)

\* the key under which run_once of the site stores the record of an alert:
\* the canonical URL (Immoweb, ImmoToma), _state_key(base_list_url, filters)
\* (Immo-KH); each site has a state file of its own
state_key(alert) ==
  << alert.site, Canonicalizer(alert.site, alert.url),
     IF alert.site = "immokh" THEN alert.filters ELSE "none" >>

\* run_once of the alert gets as far as the state store
Stored(alert) == Canonicalizer(alert.site, alert.url) # ValueError

\* C37 - No two effective alerts of one batch resolve to the same record of
\* the state store: alerts the reducer keeps under distinct keys have distinct
\* state keys in run_once.
C37_OneRecordPerAlert ==
  \A i, j \in 1..Len(effective) :
    (i # j /\ Stored(effective[i]) /\ Stored(effective[j])) =>
      state_key(effective[i]) # state_key(effective[j])

----------------------------------------------------------------------------
(* The replay of the UI against the replay of the batch                    *)

\* the alerts of a list, identified by (site, url, filters)
AlertIds(alerts) ==
  { << alerts[i].site, alerts[i].url, alerts[i].filters >> : i \in 1..Len(alerts) }

\* the alerts the UI shows for the journal as it is now
UiReplay == load_alerts(journal, TRUE)

\* the last row of the journal is the delete the UI made of an alert
JustDeleted == last_ui.op = "delete" /\ LastRowIs("delete", last_ui.before)

\* the batch runs the search of the alert
Runs(alert) ==
  \E i \in 1..Len(effective) :
    Stored(effective[i]) /\ state_key(effective[i]) = state_key(alert)

\* C38 - The reducer of the UI and the reducer of the batch agree: for every
\* journal of add, update and delete rows they give the same set of alerts
\* identified by (site, url, filters), and an alert deleted in the UI is not
\* run by the batch.
C38_ReducersAgree ==
  (BatchUpToDate /\ Events(journal)) =>
    /\ AlertIds(effective) = AlertIds(UiReplay)
    /\ JustDeleted => ~Runs(last_ui.before)

----------------------------------------------------------------------------
(* The inline edit of the UI                                               *)

\* the last row of the journal is the update an inline edit wrote, and the
\* edit changed the URL or the filters of the alert
JustEdited ==
  /\ last_ui.op = "edit" /\ LastRowIs("update", last_ui.after)
  /\ \/ last_ui.after.url # last_ui.before.url
     \/ last_ui.after.filters # last_ui.before.filters

\* the alerts of the replay that have the site, URL and filters of alert
Replayed(alert) ==
  { i \in 1..Len(effective) :
      /\ effective[i].site = alert.site
      /\ Canonicalizer(alert.site, effective[i].url) = Canonicalizer(alert.site, alert.url)
      /\ effective[i].filters = alert.filters }

\* C39 - An inline edit replaces the alert: after an edit that changes the URL
\* or the filters, the replay of the journal yields the edited alert and no
\* longer the alert as it was before the edit.
C39_EditReplaces ==
  (BatchUpToDate /\ JustEdited) =>
    /\ Replayed(last_ui.after) # {}
    /\ Replayed(last_ui.before) = {}

====
